---- MODULE Spec2Model ----
(***************************************************************************)
(* Model of the crawler-log analyzer: DataProcessor.parse_log_line and     *)
(* DataProcessor.load_data (src/utils/data_processor.py) and the upload    *)
(* handler main (src/main.py).                                             *)
(*                                                                         *)
(* A log line is modelled as the sequence of its whitespace-separated      *)
(* lexical items (bare words, a bracketed timestamp, quoted strings); the  *)
(* regular expressions of parse_log_line are modelled item by item.  Text  *)
(* whose content matters (url, user agent, status) is a sequence of code   *)
(* units: bytes before decoding, characters after decoding.                *)
(***************************************************************************)
EXTENDS Integers, Sequences, FiniteSets, TLC

\* ------------------------------------------------------------------------
\* Bounds of the model
\* ------------------------------------------------------------------------
\* longest file (in raw lines) given to load_data in SpecLoad
MaxFileLines == 6
\* longest file of SpecLoad that has requests of the crawler among its lines
MaxMixedLines == 4
\* largest number of rows of an event table in SpecAnalysis
MaxRows == 3
\* largest number of days in a row of a table of daily crawls in SpecAnalysis
MaxDays == 15
\* largest number of files of one upload in Spec
MaxBatch == 2
\* number of uploads after which the session model stops accepting uploads
MaxUploads == 2

\* ------------------------------------------------------------------------
\* Text
\* ------------------------------------------------------------------------
Range(s) == {s[i] : i \in 1..Len(s)}

\* number of positions of s that hold x
Occurrences(s, x) == Cardinality({k \in 1..Len(s) : s[k] = x})

\* str.lower() on the letters that occur in the model's texts
LowerChar(c) ==
    CASE c = "G" -> "g"
      [] c = "O" -> "o"
      [] c = "L" -> "l"
      [] c = "E" -> "e"
      [] c = "B" -> "b"
      [] c = "T" -> "t"
      [] c = "M" -> "m"
      [] OTHER -> c

Lower(s) == [i \in 1..Len(s) |-> LowerChar(s[i])]

\* the needle of re.search(r'googlebot', ...)
googlebot == <<"g", "o", "o", "g", "l", "e", "b", "o", "t">>

\* needle occurs in s as a contiguous substring
Contains(s, needle) ==
    \E k \in 0..(Len(s) - Len(needle)) :
        \A j \in 1..Len(needle) : s[k + j] = needle[j]

\* a matcher that accepts every user agent
IsGooglebotAlways(useragent) == TRUE

\* re.search(r'googlebot', data['useragent'], re.IGNORECASE)
IsGooglebot(useragent) == Contains(Lower(useragent), googlebot)

\* ------------------------------------------------------------------------
\* Lexical items of a line
\* ------------------------------------------------------------------------
NoTs == [day |-> 0, mon |-> "", year |-> 0, hh |-> 0, mm |-> 0, ss |-> 0, tz |-> ""]

\* cls: "ip" dotted digits, "num" digits, "dash" the item -, "word" letters,
\*      "host" any other blank-free item, "ts" [..], "req" "METHOD url ..",
\*      "quoted" any other "..".
Item(cls, text) == [cls |-> cls, text |-> text, ts |-> NoTs]
TsItem(ts) == [cls |-> "ts", text |-> <<>>, ts |-> ts]

\* the characters between the quotes of a quoted item
QuotedContent(t) ==
    IF t.cls = "req" THEN <<"G", "E", "T", " ">> \o t.text \o <<" ", "H">>
    ELSE t.text

\* regular-expression atoms, item by item
Sat(atom, t) ==
    CASE atom = "ip"         -> t.cls \in {"ip", "num"}                 \* [\d.]+
      [] atom = "dashword"   -> t.cls \in {"num", "dash", "word"}       \* [-\w]+
      [] atom = "nonspace"   ->                                         \* \S+
             \/ t.cls \in {"ip", "num", "dash", "word", "host"}
             \/ t.cls = "ts" /\ t.ts.tz = ""
             \/ t.cls = "quoted" /\ " " \notin Range(t.text)
      [] atom = "bracket"    -> t.cls = "ts"                            \* \[[^\]]+\]
      [] atom = "request"    -> t.cls = "req"          \* "(\w+)\s+([^\s"]+)[^"]*"
      [] atom = "quoted1"    ->                                         \* "[^"]+"
             \/ t.cls = "req"
             \/ t.cls = "quoted" /\ t.text # <<>>
      [] atom = "quoted0"    -> t.cls \in {"req", "quoted"}             \* "[^"]*"
      [] atom = "digits"     -> t.cls = "num"                           \* \d+
      [] atom = "dashdigits" -> t.cls \in {"num", "dash"}               \* [-\d]+
      [] OTHER -> FALSE

\* the three regular expressions, in the order of the list
patterns == <<
    [idents |-> <<"dashword", "dashword">>, request |-> "request", url |-> TRUE],
    [idents |-> <<>>,                       request |-> "request", url |-> TRUE],
    [idents |-> <<"nonspace", "nonspace">>, request |-> "quoted1", url |-> FALSE] >>

Atoms(p) ==
    <<"ip">> \o p.idents
        \o <<"bracket", p.request, "digits", "dashdigits", "quoted0", "quoted0">>

\* the atoms match the items of line that follow the first off items
AtomsMatchAt(atoms, line, off) ==
    /\ Len(line) >= off + Len(atoms)
    /\ \A i \in 1..Len(atoms) : Sat(atoms[i], line[off + i])

MatchesAt(p, line, off) == AtomsMatchAt(Atoms(p), line, off)

\* (?:\S+\s+)? is greedy: the alternative with the prefix is tried first
MatchOffset(p, line) ==
    IF Len(line) >= 1 /\ Sat("nonspace", line[1]) /\ MatchesAt(p, line, 1) THEN 1
    ELSE IF MatchesAt(p, line, 0) THEN 0
    ELSE -1

\* re.match(pattern, line) is not None
Matches(p, line) == MatchOffset(p, line) >= 0

\* the named groups of a match of p that starts after the first off items;
\* pattern 3 has no method and url
GroupsAt(p, line, off, n) ==
    IF p.url
    THEN [ip        |-> line[off + 1].text,
          datetime  |-> line[off + n + 2].ts,
          method    |-> <<"G", "E", "T">>,
          url       |-> line[off + n + 3].text,
          status    |-> line[off + n + 4].text,
          bytes     |-> line[off + n + 5].text,
          useragent |-> QuotedContent(line[off + n + 7])]
    ELSE [ip        |-> line[off + 1].text,
          datetime  |-> line[off + n + 2].ts,
          status    |-> line[off + n + 4].text,
          bytes     |-> line[off + n + 5].text,
          useragent |-> QuotedContent(line[off + n + 7])]

\* match.groupdict()
groupdict(p, line) == GroupsAt(p, line, MatchOffset(p, line), Len(p.idents))

\* ------------------------------------------------------------------------
\* datetime.strptime, date(), strftime
\* ------------------------------------------------------------------------
\* %b: abbreviated month names, as month numbers
MonthNum(mon) ==
    CASE mon = "Jan" -> 1
      [] mon = "Feb" -> 2
      [] mon = "Mar" -> 3
      [] OTHER -> 0

\* the calendar of the model's year 2024 (a leap year)
DaysInMonth(m) ==
    CASE m = 1 -> 31
      [] m = 2 -> 29
      [] m = 3 -> 31
      [] OTHER -> 0

\* %z accepts a numeric UTC offset, not a zone name
UtcOffsets == {"+0900", "+0000"}

\* the timestamp formats tried in order: '%d/%b/%Y:%H:%M:%S %z', '%d/%b/%Y:%H:%M:%S'
TimestampFormats == <<[zone |-> TRUE], [zone |-> FALSE]>>

\* strptime raises ValueError unless the text fits the format and the fields
\* name a time of day of a calendar day
StrptimeOk(ts, fmt) ==
    /\ MonthNum(ts.mon) # 0
    /\ ts.day \in 1..DaysInMonth(MonthNum(ts.mon))
    /\ ts.hh \in 0..23
    /\ ts.mm \in 0..59
    /\ ts.ss \in 0..59
    /\ IF fmt.zone THEN ts.tz \in UtcOffsets ELSE ts.tz = ""

\* the datetime strptime returns: the wall-clock fields as written
Strptime(ts) ==
    [year |-> ts.year, month |-> MonthNum(ts.mon), day |-> ts.day,
     hour |-> ts.hh, minute |-> ts.mm, second |-> ts.ss]

\* dt.date()
DateOf(dt) == [year |-> dt.year, month |-> dt.month, day |-> dt.day]

DigitChars == <<"0", "1", "2", "3", "4", "5", "6", "7", "8", "9">>
TwoDigits(n) == <<DigitChars[(n \div 10) + 1], DigitChars[(n % 10) + 1]>>

\* dt.strftime('%H:%M:%S')
Strftime(dt) ==
    TwoDigits(dt.hour) \o <<":">> \o TwoDigits(dt.minute) \o <<":">> \o TwoDigits(dt.second)

\* ------------------------------------------------------------------------
\* DataProcessor.parse_log_line
\* ------------------------------------------------------------------------
NoDate == [year |-> 0, month |-> 0, day |-> 0]
NoEvent == [url |-> <<>>, date |-> NoDate, time |-> <<>>, status |-> <<>>,
            user_agent |-> <<>>]

Outcome(kind, ev) == [kind |-> kind, ev |-> ev]

\* the dictionary returned at lines 40-46
EventOf(data, dt) ==
    [url |-> data.url, date |-> DateOf(dt), time |-> Strftime(dt),
     status |-> data.status, user_agent |-> data.useragent]

\* a body that returns the event of any user agent
MatchedNoCrawlerCheck(data) ==
    IF ~StrptimeOk(data.datetime, TimestampFormats[1])
       /\ ~StrptimeOk(data.datetime, TimestampFormats[2])
    THEN Outcome("None", NoEvent)
    ELSE IF "url" \notin DOMAIN data THEN Outcome("KeyError", NoEvent)
    ELSE Outcome("event", EventOf(data, Strptime(data.datetime)))

\* a body that accepts only the timestamp format with a UTC offset
MatchedZoneOnly(data) ==
    IF ~IsGooglebot(data.useragent) THEN Outcome("continue", NoEvent)
    ELSE IF ~StrptimeOk(data.datetime, TimestampFormats[1])
    THEN Outcome("None", NoEvent)
    ELSE IF "url" \notin DOMAIN data THEN Outcome("KeyError", NoEvent)
    ELSE Outcome("event", EventOf(data, Strptime(data.datetime)))

\* lines 29-46, for the groups data of a match: "continue" when the user
\* agent is not the crawler's, return None when no timestamp format parses,
\* KeyError for data['url'] of the pattern without url group, or return of
\* the event
Matched(data) ==
    IF ~IsGooglebot(data.useragent) THEN Outcome("continue", NoEvent)
    ELSE IF ~StrptimeOk(data.datetime, TimestampFormats[1])
            /\ ~StrptimeOk(data.datetime, TimestampFormats[2])
    THEN Outcome("None", NoEvent)
    ELSE IF "url" \notin DOMAIN data THEN Outcome("KeyError", NoEvent)
    ELSE Outcome("event", EventOf(data, Strptime(data.datetime)))

\* one iteration of "for pattern in patterns" (lines 26-46) for patterns[i]
LoopBody(line, i) ==
    IF ~Matches(patterns[i], line) THEN Outcome("continue", NoEvent)
    ELSE Matched(groupdict(patterns[i], line))

\* a handler that lets the exception escape
ExceptNothing(out) ==
    IF out.kind = "KeyError" THEN Outcome("raise", NoEvent) ELSE out

\* "except Exception: return None" (lines 47-48)
ExceptException(out) ==
    IF out.kind = "KeyError" THEN Outcome("None", NoEvent) ELSE out

RECURSIVE Loop(_, _)
\* the loop goes on after an iteration that ended with "continue"
LoopAfter(line, i, out) ==
    IF out.kind = "continue" THEN Loop(line, i + 1) ELSE out

\* the loop from patterns[i] on; line 49 returns None when it is exhausted
Loop(line, i) ==
    IF i > Len(patterns) THEN Outcome("None", NoEvent)
    ELSE LoopAfter(line, i, LoopBody(line, i))

\* parse_log_line(line): Outcome("None", ..) or Outcome("event", ev)
parse_log_line(line) == ExceptException(Loop(line, 1))

\* ------------------------------------------------------------------------
\* State
\* ------------------------------------------------------------------------
VARIABLES
    \* one call of parse_log_line, statement by statement (SpecParse)
    p_line,          \* the argument
    p_i,             \* index in patterns of the next iteration of the loop
    p_attempted,     \* indices of the patterns re.match was called with
    p_ret,           \* "running", or the outcome the call ended with
    \* one call of load_data (SpecLoad)
    l_file,          \* the argument
    l_result,        \* the value returned or the error raised
    l_pc,            \* "call" before the call, "done" after it
    \* the session of main (Spec)
    session_data,    \* st.session_state.data
    uploaded_files,  \* the files of the upload being handled
    idx,             \* number of files of the upload handled so far
    combined_df,     \* combined_df of the run
    loads,           \* what load_data returned for the files handled so far
    error,           \* the st.error messages of the run
    pc,              \* "idle", "loop", "sort" or "failed"
    uploads,         \* number of uploads handled
    \* one call of an operation on an event table (SpecAnalysis)
    a_df,            \* the event table
    a_call,          \* the operation called and its arguments
    a_ret,           \* what the call returned or raised
    a_reload,        \* what load_data gave for the exported bytes
    a_pc             \* "ready", "returned" or "reingested"

parse_vars == <<p_line, p_i, p_attempted, p_ret>>
load_vars == <<l_file, l_result, l_pc>>
session_vars == <<session_data, uploaded_files, idx, combined_df, loads, error, pc, uploads>>
analysis_vars == <<a_df, a_call, a_ret, a_reload, a_pc>>
vars == <<parse_vars, load_vars, session_vars, analysis_vars>>

\* ------------------------------------------------------------------------
\* Lines given to parse_log_line in SpecParse
\* ------------------------------------------------------------------------
UA_Googlebot == <<"M", "o", "z", " ", "G", "o", "o", "g", "l", "e", "b", "o", "t", "/", "2">>
UA_GOOGLEBOT == <<"G", "O", "O", "G", "L", "E", "B", "O", "T">>
UA_googlebot == <<"g", "o", "o", "g", "l", "e", "b", "o", "t">>
UA_Mozilla == <<"M", "o", "z", "i", "l", "l", "a">>
UA_GoogleBing == <<"G", "o", "o", "g", "l", "e", " ", "b", "o", "t">>

Url_a == <<"/", "a">>
Url_b == <<"/", "b">>

Txt_200 == <<"2", "0", "0">>
Txt_404 == <<"4", "0", "4">>
Txt_dash == <<"-">>

IpItem == Item("ip", <<"1", ".", "2">>)
NumItem == Item("num", <<"5">>)
DashItem == Item("dash", Txt_dash)
WordItem == Item("word", <<"b", "o", "b">>)
HostItem == Item("host", <<"e", ".", "c", "o", "m">>)

\* what may stand before the timestamp: optional prefix, client, ident fields
LineHeads ==
    { <<IpItem, DashItem, DashItem>>,             \* grammar 1
      <<HostItem, IpItem, DashItem, WordItem>>,   \* grammar 1 with prefix
      <<IpItem, NumItem, DashItem, DashItem>>,    \* grammar 1, the client as prefix
      <<NumItem, NumItem, NumItem>>,              \* grammar 1, bare numbers
      <<IpItem>>,                                 \* grammar 2
      <<HostItem, IpItem>>,                       \* grammar 2 with prefix
      <<IpItem, HostItem, DashItem>>,             \* grammar 3 only
      <<HostItem, DashItem, DashItem>> }          \* no client address: no grammar

Timestamps ==
    { [day |-> d, mon |-> m, year |-> 2024, hh |-> h, mm |-> 5, ss |-> 36, tz |-> z] :
        d \in {10, 30}, m \in {"Jan", "Feb", "Foo"}, h \in {9, 13, 24},
        z \in {"+0900", "", "JST"} }
    \cup { [day |-> 10, mon |-> "Jan", year |-> 2024, hh |-> 13, mm |-> 5, ss |-> 60,
             tz |-> ""] }

Requests == { Item("req", Url_a), Item("req", Url_b), Item("quoted", Txt_dash),
              Item("quoted", <<>>) }

UserAgents == { UA_Googlebot, UA_GOOGLEBOT, UA_googlebot, UA_Mozilla, UA_GoogleBing }

\* what may follow the request: status, bytes, referrer, user agent, and more
LineTails ==
    { <<Item("num", st), Item("dash", Txt_dash), Item("quoted", Txt_dash),
        Item("quoted", ua)>> : st \in {Txt_200, Txt_404}, ua \in UserAgents }
    \cup { <<Item("num", Txt_200), Item("num", <<"7">>), Item("quoted", UA_Googlebot),
             Item("quoted", UA_Mozilla), Item("quoted", UA_Googlebot)>>,
           <<Item("num", Txt_200), Item("num", <<"7">>), Item("quoted", Txt_dash)>>,
           <<Item("dash", Txt_dash), Item("num", <<"7">>), Item("quoted", Txt_dash),
             Item("quoted", UA_Googlebot)>> }

Lines ==
    { head \o <<TsItem(ts), req>> \o tail :
        head \in LineHeads, ts \in Timestamps, req \in Requests, tail \in LineTails }
    \cup { <<>>, <<HostItem>> }

\* ------------------------------------------------------------------------
\* SpecParse: a call of parse_log_line, one loop iteration per step
\* ------------------------------------------------------------------------
Running == Outcome("running", NoEvent)

InitParse ==
    /\ p_line \in Lines
    /\ p_i = 1
    /\ p_attempted = {}
    /\ p_ret = Running

\* one iteration of the loop: re.match with patterns[p_i], then lines 28-46
AttemptPattern ==
    /\ p_ret = Running
    /\ p_i <= Len(patterns)
    /\ p_attempted' = p_attempted \cup {p_i}
    /\ \E out \in {LoopBody(p_line, p_i)} :
          IF out.kind = "continue"
          THEN /\ p_i' = p_i + 1
               /\ p_ret' = p_ret
          ELSE /\ p_i' = p_i
               /\ p_ret' = ExceptException(out)
    /\ UNCHANGED p_line

\* the loop is exhausted: line 49
ReturnNone ==
    /\ p_ret = Running
    /\ p_i > Len(patterns)
    /\ p_ret' = Outcome("None", NoEvent)
    /\ UNCHANGED <<p_line, p_i, p_attempted>>

\* ------------------------------------------------------------------------
\* DataProcessor.load_data
\* ------------------------------------------------------------------------
\* a decoder for latin-1, in which every byte is one character
DecodeLatin1(b) ==
    [i \in 1..Len(b) |->
        CASE b[i] = "xE9" -> "e'"
          [] b[i] = "xC3" -> "A~"
          [] b[i] = "xA9" -> "(c)"
          [] OTHER -> b[i]]

\* bytes.decode('utf-8', errors='replace'): the two bytes C3 A9 are one
\* character, the three bytes EF BF BD are U+FFFD; a byte that is no UTF-8
\* sequence becomes U+FFFD
RECURSIVE DecodeUtf8Replace(_)
DecodeUtf8Replace(b) ==
    IF b = <<>> THEN <<>>
    ELSE IF Len(b) >= 2 /\ b[1] = "xC3" /\ b[2] = "xA9"
         THEN <<"e'">> \o DecodeUtf8Replace(SubSeq(b, 3, Len(b)))
    ELSE IF Len(b) >= 3 /\ b[1] = "xEF" /\ b[2] = "xBF" /\ b[3] = "xBD"
         THEN <<"uFFFD">> \o DecodeUtf8Replace(SubSeq(b, 4, Len(b)))
    ELSE IF b[1] \in {"xC3", "xA9", "xE9", "xEF", "xBF", "xBD"}
         THEN <<"uFFFD">> \o DecodeUtf8Replace(Tail(b))
    ELSE <<b[1]>> \o DecodeUtf8Replace(Tail(b))

DecodeItem(t) == [t EXCEPT !.text = DecodeUtf8Replace(t.text)]

\* a raw line of a file: its items, and whether blanks or a carriage return
\* surround them
RawLine(pad, items) == [pad |-> pad, items |-> items]

\* what the decoding of a gzip stream gives: one line of replacement
\* characters and control characters, no log text
GzipGarbage == <<RawLine(FALSE, <<Item("host", <<"uFFFD", "x08", "uFFFD">>)>>)>>

\* file.seek(0); content = file.read(); content.decode('utf-8', errors='replace');
\* content.split('\n') (lines 56-64): the raw lines of the text
ReadContent(file) ==
    IF file.gzip THEN GzipGarbage
    ELSE [k \in 1..Len(file.lines) |->
            RawLine(file.lines[k].pad,
                    [j \in 1..Len(file.lines[k].items) |->
                        DecodeItem(file.lines[k].items[j])])]

\* line.strip()
Strip(raw) == raw.items

\* [line.strip() for line in content.split('\n') if line.strip()]
StrippedLines(raws) ==
    LET F[k \in 0..Len(raws)] ==
            IF k = 0 THEN <<>>
            ELSE IF Strip(raws[k]) # <<>> THEN Append(F[k - 1], Strip(raws[k]))
            ELSE F[k - 1]
    IN  F[Len(raws)]

\* pd.to_datetime of a date: midnight of that day
ToDatetime(date) ==
    [year |-> date.year, month |-> date.month, day |-> date.day,
     hour |-> 0, minute |-> 0, second |-> 0]

\* .dt.strftime('%Y-%m'), as the pair of year and month
MonthLabel(ts) == <<ts.year, ts.month>>

DayNames == <<"Monday", "Tuesday", "Wednesday", "Thursday", "Friday", "Saturday", "Sunday">>

\* days from 1 January 2024, a Monday, to the day of ts
DayNumber(ts) ==
    LET F[m \in 0..12] == IF m = 0 THEN 0 ELSE F[m - 1] + DaysInMonth(m)
    IN  F[ts.month - 1] + ts.day - 1

\* .dt.day_name()
DayName(ts) == DayNames[(DayNumber(ts) % 7) + 1]

\* df['hour'] = df['date'].dt.hour (line 97)
HourColumn(ev, ts) == ts.hour

\* a row of the DataFrame of lines 91-97: the event, its date converted to
\* the timestamp ts, and the columns derived from ts
RowAt(ev, ts) ==
    [url |-> ev.url, date |-> ts, time |-> ev.time, status |-> ev.status,
     user_agent |-> ev.user_agent, month |-> MonthLabel(ts),
     day_of_week |-> DayName(ts), hour |-> HourColumn(ev, ts)]

Row(ev) == RowAt(ev, ToDatetime(ev.date))

NoError == [kind |-> "none", name |-> "", total |-> 0, invalid |-> 0, sample |-> <<>>]

\* the first n elements of s: s[:n]
Take(s, n) == SubSeq(s, 1, IF Len(s) < n THEN Len(s) ELSE n)

\* length of the sample of the error message (lines[:5])
SampleLen == 5

\* a step that puts the newest event first
CountStepPrepend(acc, data) ==
    IF data.kind = "event"
    THEN [acc EXCEPT !.parsed_data = <<Row(data.ev)>> \o @,
                     !.googlebot_entries = @ + 1]
    ELSE [acc EXCEPT !.invalid_lines = @ + 1]

\* lines 75-80 for the parse result data of one line, with the row of the
\* DataFrame built from the event (lines 91-97)
CountStep(acc, data) ==
    IF data.kind = "event"
    THEN [acc EXCEPT !.parsed_data = Append(@, Row(data.ev)),
                     !.googlebot_entries = @ + 1]
    ELSE [acc EXCEPT !.invalid_lines = @ + 1]

\* the loop of lines 70-80 over the stripped lines
CountLines(lines) ==
    LET F[k \in 0..Len(lines)] ==
            IF k = 0
            THEN [parsed_data |-> <<>>, invalid_lines |-> 0, googlebot_entries |-> 0]
            ELSE CountStep(F[k - 1], parse_log_line(lines[k]))
    IN  F[Len(lines)]

\* an error message with a sample of the first 2 lines
NoEntriesErrorShortSample(file, lines, c) ==
    [kind |-> "no_entries", name |-> file.name, total |-> Len(lines),
     invalid |-> c.invalid_lines, sample |-> Take(lines, 2)]

\* the ValueError of lines 83-88, as re-raised at line 102
NoEntriesError(file, lines, c) ==
    [kind |-> "no_entries", name |-> file.name, total |-> Len(lines),
     invalid |-> c.invalid_lines, sample |-> Take(lines, SampleLen)]

\* lines 65-99 for the stripped lines and the counts c of the loop: the
\* DataFrame and the counts of the st.info message, or the ValueError raised
LoadCounted(file, lines, c) ==
    IF Len(lines) = 0
    THEN [ok |-> FALSE, df |-> <<>>, total_lines |-> 0, googlebot_entries |-> 0,
          invalid_lines |-> 0,
          error |-> [NoError EXCEPT !.kind = "empty", !.name = file.name]]
    ELSE IF c.parsed_data = <<>>
    THEN [ok |-> FALSE, df |-> <<>>, total_lines |-> Len(lines),
          googlebot_entries |-> 0, invalid_lines |-> c.invalid_lines,
          error |-> NoEntriesError(file, lines, c)]
    ELSE [ok |-> TRUE, df |-> c.parsed_data, total_lines |-> Len(lines),
          googlebot_entries |-> c.googlebot_entries,
          invalid_lines |-> c.invalid_lines, error |-> NoError]

LoadLinesOf(file, lines) == LoadCounted(file, lines, CountLines(lines))

\* load_data(file)
load_data(file) == LoadLinesOf(file, StrippedLines(ReadContent(file)))

\* ------------------------------------------------------------------------
\* SpecLoad: one call of load_data
\* ------------------------------------------------------------------------
Url_cafe_latin1 == <<"/", "c", "xE9">>
Url_cafe_utf8 == <<"/", "c", "xC3", "xA9">>

LogLine(url, day, hh, ua, status) ==
    <<IpItem, DashItem, DashItem,
      TsItem([day |-> day, mon |-> "Jan", year |-> 2024, hh |-> hh, mm |-> 5,
              ss |-> 36, tz |-> "+0900"]),
      Item("req", url), Item("num", status), Item("num", <<"7">>),
      Item("quoted", Txt_dash), Item("quoted", ua)>>

\* the raw lines the files of SpecLoad are made of: requests of the crawler,
\* and a request of a browser, a line that is no request and a blank line
CrawlerLines ==
    { RawLine(TRUE, LogLine(Url_cafe_utf8, 10, 13, UA_Googlebot, Txt_200)),
      RawLine(FALSE, LogLine(Url_cafe_latin1, 5, 9, UA_GOOGLEBOT, Txt_404)) }

OtherLines ==
    { RawLine(FALSE, LogLine(Url_a, 10, 0, UA_Mozilla, Txt_200)),
      RawLine(FALSE, <<HostItem, Item("word", <<"xE9">>)>>),
      RawLine(TRUE, <<>>) }

LoadLines == CrawlerLines \cup OtherLines

File(name, gzip, lines) == [name |-> name, gzip |-> gzip, lines |-> lines]

\* the files of SpecLoad: up to MaxMixedLines lines of any kind, or up to
\* MaxFileLines lines none of which is a request of the crawler
LoadFiles ==
    { File("access.log", FALSE, ls) :
        ls \in UNION { [1..n -> LoadLines] : n \in 0..MaxMixedLines }
               \cup UNION { [1..n -> OtherLines] : n \in 0..MaxFileLines } }

NoResult ==
    [ok |-> FALSE, df |-> <<>>, total_lines |-> 0, googlebot_entries |-> 0,
     invalid_lines |-> 0, error |-> NoError]

InitLoad ==
    /\ l_file \in LoadFiles
    /\ l_result = NoResult
    /\ l_pc = "call"

CallLoadData ==
    /\ l_pc = "call"
    /\ l_result' = load_data(l_file)
    /\ l_pc' = "done"
    /\ UNCHANGED l_file

\* ------------------------------------------------------------------------
\* Spec: the session of main
\* ------------------------------------------------------------------------
SessionFiles ==
    { File("a.log", FALSE,
           << RawLine(FALSE, LogLine(Url_a, 10, 13, UA_Googlebot, Txt_200)),
              RawLine(FALSE, LogLine(Url_a, 10, 13, UA_Mozilla, Txt_200)),
              RawLine(TRUE, LogLine(Url_b, 5, 9, UA_GOOGLEBOT, Txt_404)) >>),
      File("b.log", FALSE,
           << RawLine(FALSE, LogLine(Url_b, 10, 23, UA_googlebot, Txt_200)) >>),
      File("c.log.gz", TRUE,
           << RawLine(FALSE, LogLine(Url_a, 7, 13, UA_Googlebot, Txt_200)) >>),
      File("d.log", FALSE,
           << RawLine(FALSE, LogLine(Url_a, 10, 13, UA_Mozilla, Txt_200)) >>) }

\* the uploads: 1 to MaxBatch files, in the order of the uploader
Batches == UNION { [1..n -> SessionFiles] : n \in 1..MaxBatch }

\* st.session_state.data: None, or a DataFrame
NoData == [none |-> TRUE, df |-> <<>>]
Data(df) == [none |-> FALSE, df |-> df]

\* order of the timestamps of the date column
DateLE(a, b) ==
    \/ a.year < b.year
    \/ a.year = b.year /\ a.month < b.month
    \/ a.year = b.year /\ a.month = b.month /\ a.day < b.day
    \/ a.year = b.year /\ a.month = b.month /\ a.day = b.day /\ a.hour <= b.hour

\* df.sort_values('date') (default kind 'quicksort', which is not stable): the
\* frames with the rows of df in an order that is ascending in date
SortValuesDate(df) ==
    { [k \in 1..Len(df) |-> df[f[k]]] : f \in
        { g \in Permutations(1..Len(df)) :
            \A k \in 1..(Len(df) - 1) : DateLE(df[g[k]].date, df[g[k + 1]].date) } }

Init ==
    /\ session_data = NoData
    /\ uploaded_files = <<>>
    /\ idx = 0
    /\ combined_df = <<>>
    /\ loads = <<>>
    /\ error = <<>>
    /\ pc = "idle"
    /\ uploads = 0

\* a run of the script with files in the uploader (lines 34-42)
Upload ==
    /\ pc \in {"idle", "done", "failed"}
    /\ uploads < MaxUploads
    /\ \E files \in Batches : uploaded_files' = files
    /\ idx' = 0
    /\ combined_df' = <<>>
    /\ loads' = <<>>
    /\ error' = <<>>
    /\ pc' = "loop"
    /\ uploads' = uploads + 1
    /\ UNCHANGED session_data

\* a concatenation that drops the frames loaded before
ConcatReplace(a, b) == b

\* pd.concat([combined_df, df], ignore_index=True) (line 51)
Concat(a, b) == a \o b

\* an iteration that reports the ValueError of load_data and goes on with the
\* next file
LoadFileSkipFailed ==
    /\ pc = "loop"
    /\ idx < Len(uploaded_files)
    /\ \E r \in {load_data(uploaded_files[idx + 1])} :
          /\ loads' = Append(loads, r)
          /\ combined_df' = Concat(combined_df, r.df)
          /\ error' = IF r.ok THEN error ELSE Append(error, r.error)
    /\ idx' = idx + 1
    /\ UNCHANGED <<session_data, uploaded_files, uploads, pc>>

\* one iteration of the loop over uploaded_files (lines 45-55); a ValueError
\* of load_data ends the run at the handler of lines 434-435
LoadFile ==
    /\ pc = "loop"
    /\ idx < Len(uploaded_files)
    /\ \E r \in {load_data(uploaded_files[idx + 1])} :
          /\ loads' = Append(loads, r)
          /\ IF r.ok
             THEN /\ combined_df' = Concat(combined_df, r.df)
                  /\ idx' = idx + 1
                  /\ UNCHANGED <<error, pc>>
             ELSE /\ error' = Append(error, r.error)
                  /\ pc' = "failed"
                  /\ UNCHANGED <<combined_df, idx>>
    /\ UNCHANGED <<session_data, uploaded_files, uploads>>

\* after the loop: sort and store in the session (lines 58-59)
SortAndStore ==
    /\ pc = "loop"
    /\ idx = Len(uploaded_files)
    /\ \E sorted \in SortValuesDate(combined_df) :
          /\ combined_df' = sorted
          /\ session_data' = Data(sorted)
    /\ pc' = "done"
    /\ UNCHANGED <<uploaded_files, idx, loads, error, uploads>>

\* ------------------------------------------------------------------------
\* SpecAnalysis: the event tables the operations are called with
\* ------------------------------------------------------------------------
NoCall == [fn |-> "none"]

\* the access-log lines whose events are the rows of the tables
AnalysisLines ==
    { LogLine(Url_a, 5, 13, UA_Googlebot, Txt_200),
      LogLine(Url_a, 10, 9, UA_Googlebot, Txt_404),
      LogLine(Url_b, 10, 13, UA_Googlebot, Txt_200),
      LogLine(Url_b, 20, 9, UA_Googlebot, Txt_404),
      LogLine(Url_cafe_utf8, 20, 13, UA_Googlebot, Txt_200),
      LogLine(Url_a, 20, 23, UA_Googlebot, Txt_200) }

\* the row load_data makes of the bytes of a line
RowOfLine(items) ==
    Row(parse_log_line([j \in 1..Len(items) |-> DecodeItem(items[j])]).ev)

AnalysisRows == { RowOfLine(l) : l \in AnalysisLines }

\* the tables of 1 to MaxRows rows in ascending order of date, as main keeps
\* them (line 58)
Tables ==
    { t \in UNION { [1..n -> AnalysisRows] : n \in 1..MaxRows } :
        \A k \in 1..(Len(t) - 1) : DateLE(t[k].date, t[k + 1].date) }

\* ------------------------------------------------------------------------
\* DataProcessor.export_data
\* ------------------------------------------------------------------------
FourDigits(n) ==
    <<DigitChars[(n \div 1000) + 1], DigitChars[((n \div 100) % 10) + 1]>>
        \o TwoDigits(n % 100)

\* str of an integer below 100
IntChars(n) == IF n < 10 THEN <<DigitChars[n + 1]>> ELSE TwoDigits(n)

\* to_csv writes a datetime64 column whose times are all midnight as YYYY-MM-DD
CsvDate(ts) ==
    FourDigits(ts.year) \o <<"-">> \o TwoDigits(ts.month) \o <<"-">> \o TwoDigits(ts.day)

\* the text of the month column: '%Y-%m'
CsvMonth(m) == FourDigits(m[1]) \o <<"-">> \o TwoDigits(m[2])

\* csv.QUOTE_MINIMAL: a field with the delimiter in it is written in quotes
\* (url and user agent hold no quote: [^\s"]+ and [^"]*)
CsvField(f) == IF "," \in Range(f) THEN <<"\"">> \o f \o <<"\"">> ELSE f

RECURSIVE JoinComma(_)
JoinComma(fields) ==
    IF Len(fields) = 1 THEN CsvField(fields[1])
    ELSE CsvField(fields[1]) \o <<",">> \o JoinComma(Tail(fields))

\* the columns of the DataFrame of load_data, in their order (lines 40-46, 95-97)
CsvHeader ==
    JoinComma(<< <<"url">>, <<"date">>, <<"time">>, <<"status">>, <<"user_agent">>,
                 <<"month">>, <<"day_of_week">>, <<"hour">> >>)

CsvRecord(row) ==
    JoinComma(<< row.url, CsvDate(row.date), row.time, row.status, row.user_agent,
                 CsvMonth(row.month), <<row.day_of_week>>, IntChars(row.hour) >>)

\* df.to_csv(index=False): the header and one record per row, as text lines
to_csv(df) == <<CsvHeader>> \o [k \in 1..Len(df) |-> CsvRecord(df[k])]

\* str.encode('utf-8')
RECURSIVE EncodeUtf8(_)
EncodeUtf8(chars) ==
    IF chars = <<>> THEN <<>>
    ELSE (CASE chars[1] = "e'"    -> <<"xC3", "xA9">>
            [] chars[1] = "uFFFD" -> <<"xEF", "xBF", "xBD">>
            [] OTHER              -> <<chars[1]>>) \o EncodeUtf8(Tail(chars))

\* a codec that writes one byte per character
EncodeLatin1(chars) ==
    [i \in 1..Len(chars) |-> IF chars[i] = "e'" THEN "xE9" ELSE chars[i]]

RECURSIVE SplitBlanks(_, _)
\* the blank-free pieces of text, cur being the piece read so far
SplitBlanks(text, cur) ==
    IF text = <<>> THEN (IF cur = <<>> THEN <<>> ELSE <<cur>>)
    ELSE IF text[1] = " "
         THEN (IF cur = <<>> THEN <<>> ELSE <<cur>>) \o SplitBlanks(Tail(text), <<>>)
    ELSE SplitBlanks(Tail(text), Append(cur, text[1]))

\* code units of the model's texts that are not matched by \w
NonWord ==
    {"/", ".", ",", ":", "-", "+", "\"", "[", "]", " ", "uFFFD", "x08",
     "xC3", "xA9", "xE9", "xEF", "xBF", "xBD"}

\* the class of a blank-free piece that does not begin with a quote or a
\* bracket, by the character classes of the regular expressions
Classify(piece) ==
    CASE \A i \in 1..Len(piece) : piece[i] \in Range(DigitChars) -> "num"
      [] \A i \in 1..Len(piece) : piece[i] \in Range(DigitChars) \cup {"-"} -> "dash"
      [] \A i \in 1..Len(piece) : piece[i] \in Range(DigitChars) \cup {"."} -> "ip"
      [] \A i \in 1..Len(piece) : piece[i] \notin (NonWord \ {"-"}) -> "word"
      [] OTHER -> "host"

\* a line of text as a raw line of a file: its blank-free pieces
TextLine(text) ==
    RawLine(FALSE, [j \in 1..Len(SplitBlanks(text, <<>>)) |->
                      Item(Classify(SplitBlanks(text, <<>>)[j]),
                           SplitBlanks(text, <<>>)[j])])

\* the bytes of the lines, each ended by a newline: what split('\n') gives
\* for them ends with an empty line
CsvBytes(lines, encoded) ==
    [kind |-> "csv", gzip |-> FALSE,
     lines |-> [k \in 1..Len(lines) |-> TextLine(encoded[k])]
                 \o <<RawLine(FALSE, <<>>)>>]

\* gzip.compress and gzip.decompress
GzipCompress(b) == [b EXCEPT !.gzip = TRUE]
GzipDecompress(b) == [b EXCEPT !.gzip = FALSE]

\* the workbook df.to_excel writes
ExcelBytes(df) == [kind |-> "xlsx", gzip |-> FALSE, lines |-> <<>>]

Returned(value) == [ok |-> TRUE, value |-> value, error |-> ""]
Raised(message) == [ok |-> FALSE, value |-> <<>>, error |-> message]

\* an export whose 'gz' branch encodes with a single-byte codec
export_data_gz_latin1(df, export_type) ==
    CASE export_type = "csv" ->
            Returned(CsvBytes(to_csv(df), [k \in 1..Len(to_csv(df)) |-> EncodeUtf8(to_csv(df)[k])]))
      [] export_type = "excel" -> Returned(ExcelBytes(df))
      [] export_type = "gz" ->
            Returned(GzipCompress(
                CsvBytes(to_csv(df), [k \in 1..Len(to_csv(df)) |-> EncodeLatin1(to_csv(df)[k])])))
      [] OTHER -> Raised("Unsupported export format")

\* export_data(df, export_type) (lines 233-249)
export_data(df, export_type) ==
    CASE export_type = "csv" ->
            Returned(CsvBytes(to_csv(df), [k \in 1..Len(to_csv(df)) |-> EncodeUtf8(to_csv(df)[k])]))
      [] export_type = "excel" -> Returned(ExcelBytes(df))
      [] export_type = "gz" ->
            Returned(GzipCompress(
                CsvBytes(to_csv(df), [k \in 1..Len(to_csv(df)) |-> EncodeUtf8(to_csv(df)[k])])))
      [] OTHER -> Raised("Unsupported export format")

\* the values of export_type the calls are made with
ExportTypes == {"csv", "excel", "gz", "CSV", "xlsx", "json", ""}

\* the exported bytes as an uploaded file
ExportedFile(b) == File("export", b.gzip, b.lines)

\* ------------------------------------------------------------------------
\* DataProcessor.get_url_patterns
\* ------------------------------------------------------------------------
\* code points of the characters of the urls
CharCode(c) ==
    CASE c = "/" -> 47
      [] c = "a" -> 97
      [] c = "b" -> 98
      [] c = "c" -> 99
      [] c = "e'" -> 233
      [] OTHER -> 65533

RECURSIVE StrLess(_, _)
\* s < t for strings
StrLess(s, t) ==
    IF t = <<>> THEN FALSE
    ELSE IF s = <<>> THEN TRUE
    ELSE IF s[1] = t[1] THEN StrLess(Tail(s), Tail(t))
    ELSE CharCode(s[1]) < CharCode(t[1])

RECURSIVE SortedKeys(_)
\* the group keys in ascending order (groupby sorts the keys)
SortedKeys(S) ==
    IF S = {} THEN <<>>
    ELSE LET m == CHOOSE x \in S : \A y \in S \ {x} : StrLess(x, y)
         IN  <<m>> \o SortedKeys(S \ {m})

\* None for an optional date
None == [none |-> TRUE]
Timestamp(year, month, day, hour) ==
    [none |-> FALSE, year |-> year, month |-> month, day |-> day, hour |-> hour,
     minute |-> 0, second |-> 0]

\* a filter that leaves out the rows of the end date
FilterDatesBeforeEnd(df, start_date, end_date) ==
    SelectSeq(df, LAMBDA row :
        /\ start_date.none \/ DateLE(start_date, row.date)
        /\ end_date.none \/ ~DateLE(end_date, row.date))

\* df[df['date'] >= start_date] and df[df['date'] <= end_date] (lines 144-147)
FilterDates(df, start_date, end_date) ==
    SelectSeq(df, LAMBDA row :
        /\ start_date.none \/ DateLE(start_date, row.date)
        /\ end_date.none \/ DateLE(row.date, end_date))

\* a value of the status column: the str captured by the regular expression
\* (line 44)
StatusValue(row) == [type |-> "str", chars |-> row.status]

\* value == n for an int n: a str is not equal to an int
EqualsInt(value, n) == value.type = "int" /\ value.n = n

\* (x == 200).mean() * 100 (line 153), as the fraction <<numerator, denominator>>
SuccessRate(rows) ==
    <<100 * Cardinality({k \in 1..Len(rows) : EqualsInt(StatusValue(rows[k]), 200)}),
      Len(rows)>>

MinDate(rows) ==
    CHOOSE d \in {rows[k].date : k \in 1..Len(rows)} :
        \A k \in 1..Len(rows) : DateLE(d, rows[k].date)

MaxDate(rows) ==
    CHOOSE d \in {rows[k].date : k \in 1..Len(rows)} :
        \A k \in 1..Len(rows) : DateLE(rows[k].date, d)

\* the aggregates of the rows of one url (lines 150-163)
UrlPattern(url, rows) ==
    [url |-> url,
     total_crawls |-> Len(rows),
     first_crawl |-> MinDate(rows),
     latest_crawl |-> MaxDate(rows),
     unique_days |-> Cardinality({rows[k].date : k \in 1..Len(rows)}),
     months_active |-> Cardinality({rows[k].month : k \in 1..Len(rows)}),
     success_rate |-> SuccessRate(rows),
     avg_daily_crawls |-> <<Len(rows), Cardinality({rows[k].date : k \in 1..Len(rows)})>>]

RowsOfUrl(df, url) == SelectSeq(df, LAMBDA row : row.url = url)

\* df.groupby('url').agg(..) with the renamed columns: one row per url, in
\* the order of the urls
GroupByUrl(df, urls) ==
    [k \in 1..Len(urls) |-> UrlPattern(urls[k], RowsOfUrl(df, urls[k]))]

UrlPatternColumns ==
    {"url", "total_crawls", "first_crawl", "latest_crawl", "unique_days",
     "months_active", "success_rate", "avg_daily_crawls"}

\* a <= b for two values of the column sort_by
ColumnLE(sort_by, a, b) ==
    CASE sort_by \in {"total_crawls", "unique_days", "months_active"} ->
            a[sort_by] <= b[sort_by]
      [] sort_by \in {"first_crawl", "latest_crawl"} -> DateLE(a[sort_by], b[sort_by])
      [] sort_by \in {"success_rate", "avg_daily_crawls"} ->
            a[sort_by][1] * b[sort_by][2] <= b[sort_by][1] * a[sort_by][2]
      [] OTHER -> a.url = b.url \/ StrLess(a.url, b.url)

\* t.sort_values(sort_by, ascending=ascending) (default kind 'quicksort', not
\* stable): the orders of the rows that are monotone in the column
SortValues(t, sort_by, ascending) ==
    { [k \in 1..Len(t) |-> t[f[k]]] : f \in
        { g \in Permutations(1..Len(t)) :
            \A k \in 1..(Len(t) - 1) :
                IF ascending THEN ColumnLE(sort_by, t[g[k]], t[g[k + 1]])
                ELSE ColumnLE(sort_by, t[g[k + 1]], t[g[k]]) } }

\* lines 165-169 for the grouped table
SortedPatterns(t, sort_by, ascending) ==
    IF sort_by \in UrlPatternColumns THEN SortValues(t, sort_by, ascending) ELSE {t}

\* lines 149-169 for the filtered table
PatternsOf(df, sort_by, ascending) ==
    SortedPatterns(GroupByUrl(df, SortedKeys({df[k].url : k \in 1..Len(df)})),
                   sort_by, ascending)

\* get_url_patterns(df, start_date, end_date, sort_by, ascending): the tables
\* the call may return
get_url_patterns(df, start_date, end_date, sort_by, ascending) ==
    PatternsOf(FilterDates(df, start_date, end_date), sort_by, ascending)

\* the optional dates and the sort columns of the calls
StartDates == {None, Timestamp(2024, 1, 5, 0), Timestamp(2024, 1, 10, 0)}
EndDates == {None, Timestamp(2024, 1, 10, 0), Timestamp(2024, 1, 20, 0)}
SortColumns == {"total_crawls", "latest_crawl", "success_rate", "crawls"}

\* a call of get_url_patterns whose date filter leaves rows
GetUrlPatterns ==
    /\ a_pc = "ready"
    /\ \E start_date \in StartDates, end_date \in EndDates,
          sort_by \in SortColumns, ascending \in BOOLEAN :
          /\ FilterDates(a_df, start_date, end_date) # <<>>
          /\ a_call' = [fn |-> "get_url_patterns", start_date |-> start_date,
                        end_date |-> end_date, sort_by |-> sort_by,
                        ascending |-> ascending]
          /\ \E t \in get_url_patterns(a_df, start_date, end_date, sort_by, ascending) :
                a_ret' = Returned(t)
    /\ a_pc' = "returned"
    /\ UNCHANGED <<a_df, a_reload>>

\* ------------------------------------------------------------------------
\* DataProcessor.compare_time_periods
\* ------------------------------------------------------------------------
\* a float: a fraction, or NaN
Number(num, den) == [nan |-> FALSE, num |-> num, den |-> den]
NaN == [nan |-> TRUE, num |-> 0, den |-> 1]

\* a selection that leaves out the rows of the last day of the period
InPeriodBeforeEnd(row, start_date, end_date) ==
    DateLE(start_date, row.date) /\ ~DateLE([end_date EXCEPT !.hour = 0], row.date)

\* (df['date'] >= start_date) & (df['date'] <= end_date) (lines 254-255)
InPeriod(row, start_date, end_date) ==
    DateLE(start_date, row.date) /\ DateLE(row.date, end_date)

Period(df, start_date, end_date) ==
    SelectSeq(df, LAMBDA row : InPeriod(row, start_date, end_date))

\* the values of a column
Column(df, name) == [k \in 1..Len(df) |-> df[k][name]]

\* Series.value_counts().to_dict() and groupby(..).size().to_dict(): the
\* number of rows of each value
ValueCounts(values) == [v \in Range(values) |-> Occurrences(values, v)]

\* Series.mean() of the sizes of the groups of a column: NaN when there is
\* no group
MeanGroupSize(values) ==
    IF values = <<>> THEN NaN ELSE Number(Len(values), Cardinality(Range(values)))

\* nlargest(n) of the counts, as a dict: the n keys of largest count; which
\* of several keys of equal count at the cut are kept depends on their order
NLargestDicts(counts, n) ==
    IF Cardinality(DOMAIN counts) <= n THEN {counts}
    ELSE { [v \in S |-> counts[v]] : S \in
             { T \in SUBSET (DOMAIN counts) :
                 /\ Cardinality(T) = n
                 /\ \A v \in T : \A w \in (DOMAIN counts) \ T : counts[v] >= counts[w] } }

RECURSIVE NLargestIndex(_, _, _)
\* groupby('hour').size().nlargest(n).index.tolist(): the hours by
\* descending count, of equal counts the smaller hour first (keep='first')
NLargestIndex(counts, hours, n) ==
    IF n = 0 \/ hours = {} THEN <<>>
    ELSE LET h == CHOOSE x \in hours :
                    \A y \in hours \ {x} :
                        counts[x] > counts[y] \/ (counts[x] = counts[y] /\ x < y)
         IN  <<h>> \o NLargestIndex(counts, hours \ {h}, n - 1)

\* the metrics of one period (lines 258-268), top_urls being given
PeriodMetrics(period, top_urls) ==
    [total_crawls |-> Len(period),
     unique_urls |-> Cardinality(Range(Column(period, "url"))),
     avg_daily_crawls |-> MeanGroupSize(Column(period, "date")),
     peak_hours |-> NLargestIndex(ValueCounts(Column(period, "hour")),
                                  Range(Column(period, "hour")), 3),
     top_urls |-> top_urls,
     hourly_distribution |-> ValueCounts(Column(period, "hour")),
     daily_pattern |-> ValueCounts(Column(period, "day_of_week")),
     status_codes |-> ValueCounts(Column(period, "status")),
     googlebot_variants |-> ValueCounts(Column(period, "user_agent"))]

\* what compare_time_periods returns for the two selections: metrics,
\* period1, period2 (lines 257-282)
Compared(period1, period2, top1, top2) ==
    [metrics |-> [period1 |-> PeriodMetrics(period1, top1),
                  period2 |-> PeriodMetrics(period2, top2)],
     period1 |-> period1, period2 |-> period2]

\* the periods of the calls: first day at 00:00, last day at 23:59:59
\* (main, lines 294-297)
Periods ==
    { [start |-> Timestamp(2024, 1, d[1], 0), end |-> Timestamp(2024, 1, d[2], 23)] :
        d \in {<<5, 5>>, <<5, 10>>, <<10, 20>>, <<20, 20>>, <<11, 19>>} }

CompareTimePeriods ==
    /\ a_pc = "ready"
    /\ \E p1 \in Periods, p2 \in Periods :
          /\ a_call' = [fn |-> "compare_time_periods", start_date1 |-> p1.start,
                        end_date1 |-> p1.end, start_date2 |-> p2.start,
                        end_date2 |-> p2.end]
          /\ \E period1 \in {Period(a_df, p1.start, p1.end)},
                period2 \in {Period(a_df, p2.start, p2.end)} :
                \E top1 \in NLargestDicts(ValueCounts(Column(period1, "url")), 5),
                   top2 \in NLargestDicts(ValueCounts(Column(period2, "url")), 5) :
                    a_ret' = Returned(Compared(period1, period2, top1, top2))
    /\ a_pc' = "returned"
    /\ UNCHANGED <<a_df, a_reload>>

\* ------------------------------------------------------------------------
\* DataProcessor._calculate_gini
\* ------------------------------------------------------------------------
\* the floats of the computation are fractions of the unit 0.0000001
GiniUnit == 10000000

\* np.array(array): an array of dtype int64 or float64 and its values
NpArray(dtype, values) == [dtype |-> dtype, values |-> values]

RECURSIVE SumSeq(_)
SumSeq(s) == IF s = <<>> THEN 0 ELSE s[1] + SumSeq(Tail(s))

MinOf(s) == CHOOSE x \in Range(s) : \A y \in Range(s) : x <= y

RECURSIVE SortAscending(_)
\* np.sort(array)
SortAscending(s) ==
    IF s = <<>> THEN <<>>
    ELSE LET k == CHOOSE i \in 1..Len(s) : \A j \in 1..Len(s) : s[i] <= s[j]
         IN  <<s[k]>> \o SortAscending(SubSeq(s, 1, k - 1) \o SubSeq(s, k + 1, Len(s)))

\* lines 224-225: the values shifted by the minimum when it is negative
ShiftNegative(v) == IF MinOf(v) < 0 THEN [i \in 1..Len(v) |-> v[i] - MinOf(v)] ELSE v

\* lines 227-230 for the sorted values s, in units of 0.0000001
GiniOfSorted(s) ==
    Number(SumSeq([i \in 1..Len(s) |-> (2 * i - Len(s) - 1) * s[i]]),
           Len(s) * SumSeq(s))

\* _calculate_gini(array) (lines 221-230): np.amin raises ValueError for an
\* empty array; array += 0.0000001 raises a TypeError for an int64 array,
\* whose dtype cannot hold the float result
calculate_gini(array) ==
    IF array.values = <<>> THEN Raised("ValueError")
    ELSE IF array.dtype = "int64" THEN Raised("TypeError")
    ELSE Returned(GiniOfSorted(SortAscending(
            [i \in 1..Len(array.values) |->
                ShiftNegative(array.values)[i] * GiniUnit + 1])))

\* the arrays of counts the calls are made with
CountValues == {0, 1, 3, 10}
GiniArrays ==
    { NpArray(dtype, v) : dtype \in {"int64", "float64"},
                          v \in UNION { [1..n -> CountValues] : n \in 1..MaxRows } }

\* SpecGini: one call of _calculate_gini, not on a table
InitGini ==
    /\ a_df = <<>>
    /\ a_call \in { [fn |-> "_calculate_gini", array |-> array] : array \in GiniArrays }
    /\ a_ret = NoCall
    /\ a_reload = NoResult
    /\ a_pc = "ready"

CalculateGini ==
    /\ a_pc = "ready"
    /\ a_call.fn = "_calculate_gini"
    /\ a_ret' = calculate_gini(a_call.array)
    /\ a_pc' = "returned"
    /\ UNCHANGED <<a_df, a_call, a_reload>>

\* ------------------------------------------------------------------------
\* DataProcessor.perform_statistical_analysis
\* ------------------------------------------------------------------------
\* minimum length of the daily series for the decomposition (line 189)
MinSeriesLength == 14

\* the day of 2024 with the given number of days after 1 January
DayOfNumber(n) ==
    CHOOSE ts \in { ToDatetime([year |-> 2024, month |-> m, day |-> d]) :
                      m \in 1..3, d \in 1..31 } :
        ts.day <= DaysInMonth(ts.month) /\ DayNumber(ts) = n

\* daily_series.asfreq('D', fill_value=0.0): the index of the series, one
\* entry for every calendar day from the first date to the last
AsFreqDaily(df) ==
    [k \in 1..(DayNumber(MaxDate(df)) - DayNumber(MinDate(df)) + 1) |->
        DayOfNumber(DayNumber(MinDate(df)) + k - 1)]

\* the series of a decomposition that takes the threshold for the number of
\* calendar days
DecomposedBySpan(df, decompose) ==
    IF Len(AsFreqDaily(df)) >= MinSeriesLength
       /\ decompose = "ok"
    THEN [trend    |-> AsFreqDaily(df),
          seasonal |-> AsFreqDaily(df),
          residual |-> AsFreqDaily(df)]
    ELSE [trend |-> <<>>, seasonal |-> <<>>, residual |-> <<>>]

\* lines 185-197: trend, seasonal and residual, each given by its index.
\* seasonal_decompose is statsmodels' and not part of the source: decompose
\* says whether it returns ("ok") or raises ("raise"); when it returns, its
\* three series have the index of the series it was given
Decomposed(df, decompose) ==
    IF Cardinality({df[k].date : k \in 1..Len(df)}) >= MinSeriesLength
       /\ decompose = "ok"
    THEN [trend    |-> AsFreqDaily(df),
          seasonal |-> AsFreqDaily(df),
          residual |-> AsFreqDaily(df)]
    ELSE [trend |-> <<>>, seasonal |-> <<>>, residual |-> <<>>]

\* url_counts.values (line 204): the counts of the urls in the order of the
\* urls, as float64
UrlCounts(df, urls) ==
    NpArray("float64", [k \in 1..Len(urls) |-> Len(RowsOfUrl(df, urls[k]))])

\* the dict returned at lines 211-218 (of basic_stats the mean only; series
\* by their index), top_urls being given
StatsResult(df, series, top_urls) ==
    [basic_stats |-> [mean_daily_crawls |-> MeanGroupSize(Column(df, "date"))],
     trend |-> series.trend,
     seasonal |-> series.seasonal,
     residual |-> series.residual,
     peak_hours |-> NLargestIndex(ValueCounts(Column(df, "hour")),
                                  Range(Column(df, "hour")), 3),
     url_diversity |->
        [unique_urls |-> Cardinality(Range(Column(df, "url"))),
         gini_coefficient |->
            calculate_gini(UrlCounts(df, SortedKeys(Range(Column(df, "url"))))).value,
         top_urls |-> top_urls]]

\* a table with one crawl of /a on each of the days of January 2024
DayTable(days) ==
    [k \in 1..Cardinality(days) |->
        RowOfLine(LogLine(Url_a,
                          CHOOSE d \in days : Cardinality({e \in days : e < d}) = k - 1,
                          13, UA_Googlebot, Txt_200))]

\* tables with MinSeriesLength - 2 to MaxDays days, in a row or with a last
\* day set apart
DailyTables ==
    { DayTable(1..n) : n \in (MinSeriesLength - 2)..MaxDays }
        \cup { DayTable((1..n) \cup {n + 7}) : n \in (MinSeriesLength - 2)..(MaxDays - 1) }

\* a line of the log of February
FebruaryLine(url, day) ==
    [LogLine(url, day, 13, UA_Googlebot, Txt_200) EXCEPT ![4].ts.mon = "Feb"]

\* tables of 1 to MaxRows rows of two months, in ascending order of date
MonthlyTables ==
    { t \in UNION { [1..n -> { RowOfLine(LogLine(Url_a, 10, 13, UA_Googlebot, Txt_200)),
                               RowOfLine(FebruaryLine(Url_a, 5)),
                               RowOfLine(FebruaryLine(Url_b, 20)) }] : n \in 1..MaxRows } :
        \A k \in 1..(Len(t) - 1) : DateLE(t[k].date, t[k + 1].date) }

PerformStatisticalAnalysis ==
    /\ a_pc = "ready"
    /\ \E decompose \in {"ok", "raise"} :
          /\ a_call' = [fn |-> "perform_statistical_analysis", decompose |-> decompose]
          /\ \E top_urls \in NLargestDicts(ValueCounts(Column(a_df, "url")), 5) :
                a_ret' = Returned(StatsResult(a_df, Decomposed(a_df, decompose), top_urls))
    /\ a_pc' = "returned"
    /\ UNCHANGED <<a_df, a_reload>>

\* ------------------------------------------------------------------------
\* SpecAnalysis: the calls
\* ------------------------------------------------------------------------
InitAnalysis ==
    /\ a_df \in Tables \cup DailyTables \cup MonthlyTables
    /\ a_call = NoCall
    /\ a_ret = NoCall
    /\ a_reload = NoResult
    /\ a_pc = "ready"

ExportData ==
    /\ a_pc = "ready"
    /\ \E export_type \in ExportTypes :
          /\ a_call' = [fn |-> "export_data", export_type |-> export_type]
          /\ a_ret' = export_data(a_df, export_type)
    /\ a_pc' = "returned"
    /\ UNCHANGED <<a_df, a_reload>>

\* the exported delimited text given to load_data
Reingest ==
    /\ a_pc = "returned"
    /\ a_call.fn = "export_data"
    /\ a_ret.ok
    /\ a_ret.value.kind = "csv"
    /\ a_reload' = load_data(ExportedFile(a_ret.value))
    /\ a_pc' = "reingested"
    /\ UNCHANGED <<a_df, a_call, a_ret>>

\* ------------------------------------------------------------------------
\* DataProcessor.calculate_crawl_frequency
\* ------------------------------------------------------------------------
\* the (date, url) pairs of the rows
DateUrlKeys(df) == { [date |-> df[k].date, url |-> df[k].url] : k \in 1..Len(df) }

\* order of the group keys: by date, then by url
PairLess(a, b) ==
    \/ ~DateLE(b.date, a.date)
    \/ a.date = b.date /\ StrLess(a.url, b.url)

RECURSIVE SortedPairs(_)
\* the group keys in ascending order (groupby sorts the keys)
SortedPairs(S) ==
    IF S = {} THEN <<>>
    ELSE LET m == CHOOSE x \in S : \A y \in S \ {x} : PairLess(x, y)
         IN  <<m>> \o SortedPairs(S \ {m})

\* a count of the rows of the date of the key, whatever their url
CrawlCountOfDate(df, key) ==
    Cardinality({k \in 1..Len(df) : df[k].date = key.date})

\* groupby(['date', 'url']).size() for one key (lines 111-112)
CrawlCount(df, key) ==
    Cardinality({k \in 1..Len(df) : df[k].date = key.date /\ df[k].url = key.url})

\* groupby(['date', 'url']).size().reset_index(name='crawl_count') (lines
\* 111-114): one row per key, in the order of the keys
GroupByDateUrl(df, keys) ==
    [k \in 1..Len(keys) |->
        [date |-> keys[k].date, url |-> keys[k].url,
         crawl_count |-> CrawlCount(df, keys[k])]]

\* t without its k-th row
RemoveAt(t, k) == SubSeq(t, 1, k - 1) \o SubSeq(t, k + 1, Len(t))

RECURSIVE SortValuesByDate(_)
\* daily_counts.sort_values('date') (line 117; default kind 'quicksort', not
\* stable): the orders of the rows of t that are ascending in date, built
\* from a row of the earliest date followed by an order of the other rows
SortValuesByDate(t) ==
    IF t = <<>> THEN {<<>>}
    ELSE UNION { { <<t[k]>> \o rest : rest \in SortValuesByDate(RemoveAt(t, k)) } :
                   k \in { j \in 1..Len(t) :
                             \A i \in 1..Len(t) : DateLE(t[j].date, t[i].date) } }

\* calculate_crawl_frequency(df) for df None or a DataFrame: the tables the
\* call may return (lines 107-119)
calculate_crawl_frequency(df) ==
    IF df.none \/ df.df = <<>> THEN {<<>>}
    ELSE SortValuesByDate(GroupByDateUrl(df.df, SortedPairs(DateUrlKeys(df.df))))

\* a call with the table, with an empty table or with None
CalculateCrawlFrequency ==
    /\ a_pc = "ready"
    /\ \E df \in {Data(a_df), Data(<<>>), NoData} :
          /\ a_call' = [fn |-> "calculate_crawl_frequency", df |-> df]
          /\ \E t \in calculate_crawl_frequency(df) : a_ret' = Returned(t)
    /\ a_pc' = "returned"
    /\ UNCHANGED <<a_df, a_reload>>

\* ------------------------------------------------------------------------
\* DataProcessor.calculate_monthly_stats
\* ------------------------------------------------------------------------
\* order of the labels 'YYYY-MM'
MonthLess(a, b) == a[1] < b[1] \/ (a[1] = b[1] /\ a[2] < b[2])

RECURSIVE SortedMonths(_)
\* the group keys in ascending order (groupby sorts the keys)
SortedMonths(S) ==
    IF S = {} THEN <<>>
    ELSE LET m == CHOOSE x \in S : \A y \in S \ {x} : MonthLess(x, y)
         IN  <<m>> \o SortedMonths(S \ {m})

\* aggregates that count the rows for both columns
MonthStatsCountOnly(month, rows) ==
    [month |-> month, total_crawls |-> Len(rows), unique_days |-> Len(rows)]

\* the aggregates of the rows of one month: 'url': 'count' and
\* 'date': 'nunique', renamed (lines 124-128)
MonthStats(month, rows) ==
    [month |-> month,
     total_crawls |-> Len(rows),
     unique_days |-> Cardinality(Range(Column(rows, "date")))]

\* calculate_monthly_stats(df): one row per month, in the order of the months
\* (lines 124-129)
calculate_monthly_stats(df) ==
    [k \in 1..Cardinality(Range(Column(df, "month"))) |->
        MonthStats(SortedMonths(Range(Column(df, "month")))[k],
                   SelectSeq(df, LAMBDA row :
                       row.month = SortedMonths(Range(Column(df, "month")))[k]))]

CalculateMonthlyStats ==
    /\ a_pc = "ready"
    /\ a_call' = [fn |-> "calculate_monthly_stats"]
    /\ a_ret' = Returned(calculate_monthly_stats(a_df))
    /\ a_pc' = "returned"
    /\ UNCHANGED <<a_df, a_reload>>

\* ------------------------------------------------------------------------
\* Specifications
\* ------------------------------------------------------------------------
ParseIdle ==
    /\ p_line = <<>>
    /\ p_i = 1
    /\ p_attempted = {}
    /\ p_ret = Running

LoadIdle ==
    /\ l_file = File("", FALSE, <<>>)
    /\ l_result = NoResult
    /\ l_pc = "call"

SessionIdle ==
    /\ session_data = NoData
    /\ uploaded_files = <<>>
    /\ idx = 0
    /\ combined_df = <<>>
    /\ loads = <<>>
    /\ error = <<>>
    /\ pc = "off"
    /\ uploads = 0

AnalysisIdle ==
    /\ a_df = <<>>
    /\ a_call = NoCall
    /\ a_ret = NoCall
    /\ a_reload = NoResult
    /\ a_pc = "off"

NextParse ==
    \/ AttemptPattern /\ UNCHANGED <<load_vars, session_vars, analysis_vars>>
    \/ ReturnNone /\ UNCHANGED <<load_vars, session_vars, analysis_vars>>

InitParseCall == InitParse /\ LoadIdle /\ SessionIdle /\ AnalysisIdle

SpecParse == InitParseCall /\ [][NextParse]_vars

NextLoad == CallLoadData /\ UNCHANGED <<parse_vars, session_vars, analysis_vars>>

InitLoadCall == InitLoad /\ ParseIdle /\ SessionIdle /\ AnalysisIdle

SpecLoad == InitLoadCall /\ [][NextLoad]_vars

NextAnalysis ==
    \/ ExportData /\ UNCHANGED <<parse_vars, load_vars, session_vars>>
    \/ Reingest /\ UNCHANGED <<parse_vars, load_vars, session_vars>>
    \/ GetUrlPatterns /\ UNCHANGED <<parse_vars, load_vars, session_vars>>
    \/ CompareTimePeriods /\ UNCHANGED <<parse_vars, load_vars, session_vars>>
    \/ PerformStatisticalAnalysis /\ UNCHANGED <<parse_vars, load_vars, session_vars>>
    \/ CalculateCrawlFrequency /\ UNCHANGED <<parse_vars, load_vars, session_vars>>
    \/ CalculateMonthlyStats /\ UNCHANGED <<parse_vars, load_vars, session_vars>>

InitAnalysisCall == InitAnalysis /\ ParseIdle /\ LoadIdle /\ SessionIdle

SpecAnalysis == InitAnalysisCall /\ [][NextAnalysis]_vars

NextGini == CalculateGini /\ UNCHANGED <<parse_vars, load_vars, session_vars>>

InitGiniCall == InitGini /\ ParseIdle /\ LoadIdle /\ SessionIdle

SpecGini == InitGiniCall /\ [][NextGini]_vars

Next ==
    \/ Upload /\ UNCHANGED <<parse_vars, load_vars, analysis_vars>>
    \/ LoadFile /\ UNCHANGED <<parse_vars, load_vars, analysis_vars>>
    \/ SortAndStore /\ UNCHANGED <<parse_vars, load_vars, analysis_vars>>

InitSession == Init /\ ParseIdle /\ LoadIdle /\ AnalysisIdle

Spec == InitSession /\ [][Next]_vars

\* ------------------------------------------------------------------------
\* Consistency of the step-wise call with the function
\* ------------------------------------------------------------------------
StepwiseAgrees == p_ret # Running => p_ret = parse_log_line(p_line)

\* ------------------------------------------------------------------------
\* What a line embeds, read off its items
\* ------------------------------------------------------------------------
\* index of the first pattern that structurally matches line, 0 if none does
FirstMatch(line) ==
    IF \E i \in 1..Len(patterns) : Matches(patterns[i], line)
    THEN CHOOSE i \in 1..Len(patterns) :
            /\ Matches(patterns[i], line)
            /\ \A j \in 1..(i - 1) : ~Matches(patterns[j], line)
    ELSE 0

\* the text contains the crawler's name in any letter case
HasCrawlerName(text) ==
    \E k \in 0..(Len(text) - 9) :
        \A j \in 1..9 : LowerChar(text[k + j]) = googlebot[j]

\* position of the user agent in a line that matches patterns[i]
UserAgentAt(line, i) ==
    line[MatchOffset(patterns[i], line) + Len(patterns[i].idents) + 7]

\* the items of a line of grammar 1: timestamp, request, user agent
Grammar1Ts(line) == line[MatchOffset(patterns[1], line) + 4].ts
Grammar1Url(line) == line[MatchOffset(patterns[1], line) + 5].text
Grammar1UserAgent(line) == line[MatchOffset(patterns[1], line) + 9]

\* the timestamp is written in one of the two accepted formats
AcceptedTimestamp(ts) ==
    StrptimeOk(ts, TimestampFormats[1]) \/ StrptimeOk(ts, TimestampFormats[2])

\* the number a text of two digits denotes
TwoDigitValue(c1, c2) ==
    LET digit(c) == CHOOSE d \in 0..9 : DigitChars[d + 1] = c
    IN  10 * digit(c1) + digit(c2)

\* hour, minute and second of a text HH:MM:SS
TimeValue(time) ==
    <<TwoDigitValue(time[1], time[2]), TwoDigitValue(time[4], time[5]),
      TwoDigitValue(time[7], time[8])>>

WellFormedTime(time) ==
    /\ Len(time) = 8
    /\ time[3] = ":" /\ time[6] = ":"
    /\ \A k \in {1, 2, 4, 5, 7, 8} : time[k] \in Range(DigitChars)

\* ------------------------------------------------------------------------
\* C1
\* ------------------------------------------------------------------------
FirstMatchNotCrawler(line) ==
    /\ FirstMatch(line) # 0
    /\ ~HasCrawlerName(QuotedContent(UserAgentAt(line, FirstMatch(line))))

\* C1 as stated: when the first pattern that structurally matches the line
\* captures a user agent without 'googlebot', parse_log_line returns no
\* event and no later pattern is attempted.
C1_NoLaterPatternAttempted ==
    FirstMatchNotCrawler(p_line) =>
        /\ p_attempted \subseteq 1..FirstMatch(p_line)
        /\ p_ret # Running => p_ret.kind = "None"

\* C1 as amended: when the first pattern that structurally matches the line
\* captures a user agent without 'googlebot', parse_log_line returns no
\* event; the later patterns are attempted all the same, and none of them
\* yields an event.
C1_FirstMatchDecides ==
    (p_ret # Running /\ FirstMatchNotCrawler(p_line)) =>
        /\ p_ret.kind = "None"
        /\ p_attempted = 1..Len(patterns)

C1_Witness ==
    /\ p_ret.kind = "None"
    /\ FirstMatchNotCrawler(p_line)
    /\ FirstMatch(p_line) = 1
    /\ Matches(patterns[3], p_line)
    /\ 3 \in p_attempted

\* ------------------------------------------------------------------------
\* C2
\* ------------------------------------------------------------------------
CrawlerLineOfGrammar1(line) ==
    /\ Matches(patterns[1], line)
    /\ AcceptedTimestamp(Grammar1Ts(line))
    /\ HasCrawlerName(QuotedContent(Grammar1UserAgent(line)))

\* C2: for a line of grammar 1 with a timestamp in an accepted format and a
\* user agent containing 'googlebot' in any letter case, parse_log_line
\* returns an event whose url, date and time are the ones written in the line.
C2_EventMatchesLine ==
    (p_ret # Running /\ CrawlerLineOfGrammar1(p_line)) =>
        /\ p_ret.kind = "event"
        /\ p_ret.ev.url = Grammar1Url(p_line)
        /\ p_ret.ev.date.year = Grammar1Ts(p_line).year
        /\ p_ret.ev.date.month = MonthNum(Grammar1Ts(p_line).mon)
        /\ p_ret.ev.date.day = Grammar1Ts(p_line).day
        /\ WellFormedTime(p_ret.ev.time)
        /\ TimeValue(p_ret.ev.time)
             = <<Grammar1Ts(p_line).hh, Grammar1Ts(p_line).mm, Grammar1Ts(p_line).ss>>

C2_Witness ==
    /\ p_ret.kind = "event"
    /\ CrawlerLineOfGrammar1(p_line)
    /\ MatchOffset(patterns[1], p_line) = 1
    /\ Grammar1Ts(p_line).tz = ""
    /\ Grammar1Ts(p_line).hh = 9
    /\ Grammar1UserAgent(p_line).text = UA_GOOGLEBOT
    /\ p_ret.ev.url = Url_b

\* ------------------------------------------------------------------------
\* C3
\* ------------------------------------------------------------------------
\* the stripped, non-empty lines of the decoded file, read off the file
ItemsOf(content) == [k \in 1..Len(content) |-> content[k].items]

FileLines(file) == SelectSeq(ItemsOf(ReadContent(file)), LAMBDA items : items # <<>>)

\* C3: a line that is valid but for a user agent without 'googlebot' gives
\* no event, and every row of a table returned by load_data has a user
\* agent containing 'googlebot'.
OnlyCrawlerRows(lines, df) ==
    /\ \A k \in 1..Len(lines) :
          FirstMatchNotCrawler(lines[k]) => parse_log_line(lines[k]).kind = "None"
    /\ \A k \in 1..Len(df) : HasCrawlerName(df[k].user_agent)
    /\ Len(df) <= Cardinality({k \in 1..Len(lines) : ~FirstMatchNotCrawler(lines[k])})

C3_OnlyCrawlerRows ==
    l_pc = "done" => OnlyCrawlerRows(FileLines(l_file), l_result.df)

C3_Witness ==
    /\ l_pc = "done"
    /\ l_result.ok
    /\ \E k \in 1..Len(FileLines(l_file)) : FirstMatchNotCrawler(FileLines(l_file)[k])
    /\ Len(l_result.df) = 2
    /\ Len(FileLines(l_file)) = 4

\* ------------------------------------------------------------------------
\* C4
\* ------------------------------------------------------------------------
\* only the grammar without url group matches the line
OnlyPattern3(line) == FirstMatch(line) = 3

\* C4: parse_log_line never raises; it returns no event, or an event with a
\* non-empty url, a calendar date and a time HH:MM:SS; a line whose
\* timestamp is in neither accepted format, or that matches only the grammar
\* without url group, gives no event.
C4_NeverRaises ==
    /\ p_ret.kind \in {"running", "None", "event"}
    /\ p_ret.kind = "event" =>
          /\ p_ret.ev.url # <<>>
          /\ p_ret.ev.date.month \in 1..12
          /\ p_ret.ev.date.day \in 1..DaysInMonth(p_ret.ev.date.month)
          /\ WellFormedTime(p_ret.ev.time)
    /\ (p_ret # Running /\ FirstMatch(p_line) # 0
          /\ ~AcceptedTimestamp(
                p_line[MatchOffset(patterns[FirstMatch(p_line)], p_line)
                       + Len(patterns[FirstMatch(p_line)].idents) + 2].ts))
          => p_ret.kind = "None"
    /\ (p_ret # Running /\ OnlyPattern3(p_line)) => p_ret.kind = "None"

C4_Witness ==
    /\ p_ret.kind = "None"
    /\ OnlyPattern3(p_line)
    /\ HasCrawlerName(QuotedContent(UserAgentAt(p_line, 3)))
    /\ AcceptedTimestamp(p_line[MatchOffset(patterns[3], p_line) + 4].ts)
    /\ 3 \in p_attempted

\* ------------------------------------------------------------------------
\* C5
\* ------------------------------------------------------------------------
\* the events of the lines of the file, in the order of the lines
OutcomesOf(lines) == [k \in 1..Len(lines) |-> parse_log_line(lines[k])]

EventsInOrder(file) ==
    SelectSeq(OutcomesOf(FileLines(file)), LAMBDA o : o.kind = "event")

CountsAndOrder(file, result, events) ==
    /\ result.total_lines
         = Cardinality({k \in 1..Len(file.lines) : file.lines[k].items # <<>>})
    /\ result.total_lines = result.googlebot_entries + result.invalid_lines
    /\ result.googlebot_entries = Len(events)
    /\ Len(result.df) = result.googlebot_entries
    /\ \A k \in 1..Len(result.df) :
          /\ result.df[k].url = events[k].ev.url
          /\ result.df[k].time = events[k].ev.time
          /\ result.df[k].date.day = events[k].ev.date.day

\* C5: for a file load_data ingests, the total of non-empty stripped lines
\* is the matched lines plus the invalid lines, and the table has one row per
\* matched line, in the order of the lines in the file.
C5_CountsAndOrder ==
    (l_pc = "done" /\ l_result.ok) =>
        CountsAndOrder(l_file, l_result, EventsInOrder(l_file))

C5_Witness ==
    /\ l_pc = "done"
    /\ l_result.ok
    /\ Len(l_file.lines) = 4
    /\ l_result.total_lines = 3
    /\ l_result.googlebot_entries = 2
    /\ l_result.invalid_lines = 1
    /\ l_result.df[1].url # l_result.df[2].url
    /\ l_result.df[1].date.day < l_result.df[2].date.day

\* ------------------------------------------------------------------------
\* C6
\* ------------------------------------------------------------------------
\* C6: when a file has at least one line and no line yields an event,
\* load_data fails with an error that carries the total line count, an
\* invalid-line count equal to the total, and the first lines of the file,
\* at most 5 of them.
NoEntriesReported(name, lines, result) ==
    (Len(lines) >= 1 /\ \A k \in 1..Len(lines) : parse_log_line(lines[k]).kind # "event") =>
        /\ ~result.ok
        /\ result.df = <<>>
        /\ result.error.kind = "no_entries"
        /\ result.error.name = name
        /\ result.error.total = Len(lines)
        /\ result.error.invalid = result.error.total
        /\ Len(result.error.sample) <= 5
        /\ Len(result.error.sample) < 5 => Len(result.error.sample) = Len(lines)
        /\ \A k \in 1..Len(result.error.sample) : result.error.sample[k] = lines[k]

C6_NoEntriesError ==
    l_pc = "done" => NoEntriesReported(l_file.name, FileLines(l_file), l_result)

C6_Witness ==
    /\ l_pc = "done"
    /\ l_result.error.kind = "no_entries"
    /\ l_result.error.total = 6
    /\ l_result.error.invalid = 6
    /\ Len(l_result.error.sample) = 5
    /\ l_result.error.sample[1] # l_result.error.sample[2]

\* ------------------------------------------------------------------------
\* C7
\* ------------------------------------------------------------------------
\* C7: every row of the table produced by ingestion has hour equal to the
\* hour of day (0-23) of the row's time: an event logged at HH:MM:SS has
\* hour HH.
C7_HourOfTime ==
    l_pc = "done" =>
        \A k \in 1..Len(l_result.df) :
            /\ l_result.df[k].hour \in 0..23
            /\ l_result.df[k].hour = TimeValue(l_result.df[k].time)[1]

\* ------------------------------------------------------------------------
\* C8
\* ------------------------------------------------------------------------
\* C8: a gzip-compressed upload is decompressed before its lines are split
\* and parsed, so that its events are the events of the same log
\* uncompressed.
C8_GzipDecompressed ==
    \A k \in 1..Len(loads) :
        uploaded_files[k].gzip =>
            LET plain == load_data([uploaded_files[k] EXCEPT !.gzip = FALSE])
            IN  /\ loads[k].ok = plain.ok
                /\ loads[k].df = plain.df

\* ------------------------------------------------------------------------
\* C9
\* ------------------------------------------------------------------------
\* the bytes are a UTF-8 encoding: C3 A9 only as a pair, no lone E9
ValidUtf8(b) ==
    \A k \in 1..Len(b) :
        /\ b[k] # "xE9"
        /\ b[k] = "xC3" => (k < Len(b) /\ b[k + 1] = "xA9")
        /\ b[k] = "xA9" => (k > 1 /\ b[k - 1] = "xC3")

HasInvalidUtf8(file) ==
    \E k \in 1..Len(file.lines) :
        \E j \in 1..Len(file.lines[k].items) : ~ValidUtf8(file.lines[k].items[j].text)

HasReplacementChar(lines) ==
    \E k \in 1..Len(lines) :
        \E j \in 1..Len(lines[k]) : "uFFFD" \in Range(lines[k][j].text)

CrawlerRawLines(file) ==
    SelectSeq(file.lines,
              LAMBDA raw : Len(raw.items) = 9 /\ HasCrawlerName(raw.items[9].text))

\* the characters of the urls of the files: the UTF-8 pair is one character,
\* the lone byte is replaced
ExpectedUrl(b) ==
    CASE b = Url_cafe_utf8   -> <<"/", "c", "e'">>
      [] b = Url_cafe_latin1 -> <<"/", "c", "uFFFD">>
      [] OTHER -> b

\* C9 as amended: load_data decodes the bytes as UTF-8 only; valid UTF-8
\* gives its characters, every byte that is invalid in UTF-8 is replaced by
\* U+FFFD, no other encoding is tried and no encoding error is raised.
Utf8Urls(crawler, df) ==
    /\ Len(df) = Len(crawler)
    /\ \A k \in 1..Len(df) : df[k].url = ExpectedUrl(crawler[k].items[5].text)

RowsOfBatch(files) ==
    LET F[k \in 0..Len(files)] ==
            IF k = 0 THEN <<>> ELSE F[k - 1] \o load_data(files[k]).df
    IN  F[Len(files)]

\* the sum of the matched-line counts reported for the files
MatchedTotal(results) ==
    LET F[k \in 0..Len(results)] ==
            IF k = 0 THEN 0 ELSE F[k - 1] + results[k].googlebot_entries
    IN  F[Len(results)]

SameRows(a, b) ==
    /\ Len(a) = Len(b)
    /\ \A x \in Range(a) \cup Range(b) : Occurrences(a, x) = Occurrences(b, x)

\* C10: after a batch is processed successfully the session table holds
\* exactly the events of the files of that batch (as many rows as the sum
\* of the files' matched-line counts), sorted by date ascending; whatever the
\* session held before is replaced.
C10_BatchReplacesSession ==
    pc = "done" =>
        /\ ~session_data.none
        /\ SameRows(session_data.df, RowsOfBatch(uploaded_files))
        /\ Len(session_data.df) = MatchedTotal(loads)
        /\ Len(loads) = Len(uploaded_files)
        /\ \A k \in 1..(Len(session_data.df) - 1) :
              DateLE(session_data.df[k].date, session_data.df[k + 1].date)

C10_Witness ==
    /\ pc = "done"
    /\ uploads = 2
    /\ Len(uploaded_files) = 2
    /\ uploaded_files[1] # uploaded_files[2]
    /\ Len(session_data.df) = 3
    /\ session_data.df # RowsOfBatch(uploaded_files)

\* ------------------------------------------------------------------------
\* C11
\* ------------------------------------------------------------------------
\* s is ascending in date; x is put after the rows whose date is not later
StableInsert(s, x) ==
    LET n == Cardinality({k \in 1..Len(s) : DateLE(s[k].date, x.date)})
    IN  SubSeq(s, 1, n) \o <<x>> \o SubSeq(s, n + 1, Len(s))

RECURSIVE StableSortDate(_)
\* the rows of df ascending in date, rows of equal date in the order of df
StableSortDate(df) ==
    IF df = <<>> THEN <<>>
    ELSE StableInsert(StableSortDate(SubSeq(df, 1, Len(df) - 1)), df[Len(df)])

\* C11: the date sort of the combined table is stable: after a batch is
\* stored, the session table is the concatenation (file upload order, then
\* line order) sorted by date with rows of equal date in their order of
\* concatenation.
C11_StableSort ==
    pc = "done" => session_data.df = StableSortDate(RowsOfBatch(uploaded_files))

\* ------------------------------------------------------------------------
\* C12
\* ------------------------------------------------------------------------
\* the (url, date, time) triples of a table
Triples(df) == { <<df[k].url, df[k].date, df[k].time>> : k \in 1..Len(df) }

\* C12: exporting an event table with export_data(df, 'csv') and giving the
\* bytes to load_data reproduces the set of (url, date, time) triples of the
\* table.
C12_CsvRoundTrip ==
    (a_pc = "reingested" /\ a_call.export_type = "csv") =>
        /\ a_reload.ok
        /\ Triples(a_reload.df) = Triples(a_df)

\* ------------------------------------------------------------------------
\* C13
\* ------------------------------------------------------------------------
\* the rows of url that the call of get_url_patterns aggregates
RowsAggregated(url) ==
    RowsOfUrl(FilterDates(a_df, a_call.start_date, a_call.end_date), url)

\* number of rows whose status is the text 200
Count200(rows) == Cardinality({k \in 1..Len(rows) : rows[k].status = Txt_200})

\* C13: in the table get_url_patterns returns for an ingested event table,
\* success_rate of a url is 100 times the fraction of the rows of that url
\* whose status is 200.
C13_SuccessRate ==
    (a_pc = "returned" /\ a_call.fn = "get_url_patterns") =>
        \A k \in 1..Len(a_ret.value) :
            a_ret.value[k].success_rate[1] * Len(RowsAggregated(a_ret.value[k].url))
                = 100 * Count200(RowsAggregated(a_ret.value[k].url))
                    * a_ret.value[k].success_rate[2]

\* ------------------------------------------------------------------------
\* C14
\* ------------------------------------------------------------------------
Reverse(s) == [k \in 1..Len(s) |-> s[Len(s) + 1 - k]]

\* C14: get_url_patterns sorted by total_crawls with ascending=False gives a
\* non-increasing total_crawls sequence, and the same call with
\* ascending=True gives exactly the reverse row sequence, also when urls have
\* equal total_crawls.
C14_AscendingReverses ==
    (a_pc = "returned" /\ a_call.fn = "get_url_patterns"
        /\ a_call.sort_by = "total_crawls" /\ ~a_call.ascending) =>
        /\ \A k \in 1..(Len(a_ret.value) - 1) :
              a_ret.value[k].total_crawls >= a_ret.value[k + 1].total_crawls
        /\ \A t \in get_url_patterns(a_df, a_call.start_date, a_call.end_date,
                                     "total_crawls", TRUE) :
              t = Reverse(a_ret.value)

\* ------------------------------------------------------------------------
\* C15
\* ------------------------------------------------------------------------
\* the calendar day of the row is one of the days from start to end
DayInRange(row, start_date, end_date) ==
    /\ <<start_date.year, start_date.month>> = <<row.date.year, row.date.month>>
    /\ <<end_date.year, end_date.month>> = <<row.date.year, row.date.month>>
    /\ start_date.day <= row.date.day
    /\ row.date.day <= end_date.day

InRange1(row) == DayInRange(row, a_call.start_date1, a_call.end_date1)
InRange2(row) == DayInRange(row, a_call.start_date2, a_call.end_date2)

\* no day is in both ranges
DisjointRanges ==
    \/ a_call.end_date1.day < a_call.start_date2.day
    \/ a_call.end_date2.day < a_call.start_date1.day

Compared15 == a_pc = "returned" /\ a_call.fn = "compare_time_periods"

\* C15: for two disjoint date ranges, the total_crawls of the two periods
\* add up to the number of rows whose date is in either range (bounds
\* included), each period table holds the rows of its range, and a row
\* outside both ranges is in neither period table.
C15_DisjointPeriods ==
    (Compared15 /\ DisjointRanges) =>
        /\ a_ret.value.metrics.period1.total_crawls
             + a_ret.value.metrics.period2.total_crawls
             = Cardinality({k \in 1..Len(a_df) : InRange1(a_df[k]) \/ InRange2(a_df[k])})
        /\ a_ret.value.period1 = SelectSeq(a_df, InRange1)
        /\ a_ret.value.period2 = SelectSeq(a_df, InRange2)
        /\ \A k \in 1..Len(a_df) :
              (~InRange1(a_df[k]) /\ ~InRange2(a_df[k])) =>
                  /\ a_df[k] \notin Range(a_ret.value.period1)
                  /\ a_df[k] \notin Range(a_ret.value.period2)

C15_Witness ==
    /\ Compared15
    /\ DisjointRanges
    /\ a_call.end_date1.day = 5
    /\ a_call.start_date2.day = 20
    /\ Len(a_df) = 3
    /\ a_ret.value.metrics.period1.total_crawls = 1
    /\ a_ret.value.metrics.period2.total_crawls = 1
    /\ a_df[1].date.day = 5
    /\ a_df[2].date.day = 10
    /\ a_df[3].date.day = 20
    /\ a_df[2] \notin Range(a_ret.value.period1)
    /\ a_df[2] \notin Range(a_ret.value.period2)

\* ------------------------------------------------------------------------
\* C16
\* ------------------------------------------------------------------------
\* every aggregate of the metrics m is zero or empty
ZeroOrEmpty(m) ==
    /\ m.total_crawls = 0
    /\ m.unique_urls = 0
    /\ ~m.avg_daily_crawls.nan /\ m.avg_daily_crawls.num = 0
    /\ m.peak_hours = <<>>
    /\ DOMAIN m.top_urls = {}
    /\ DOMAIN m.hourly_distribution = {}
    /\ DOMAIN m.daily_pattern = {}
    /\ DOMAIN m.status_codes = {}
    /\ DOMAIN m.googlebot_variants = {}

\* C16: when a range given to compare_time_periods matches no row, the call
\* does not fail and every aggregate of that period is zero or empty:
\* total_crawls, unique_urls and avg_daily_crawls are 0, peak_hours, top_urls
\* and the distributions are empty.
C16_EmptyPeriodZero ==
    (a_pc = "returned" /\ a_call.fn = "compare_time_periods") =>
        /\ a_ret.ok
        /\ a_ret.value.period1 = <<>> => ZeroOrEmpty(a_ret.value.metrics.period1)
        /\ a_ret.value.period2 = <<>> => ZeroOrEmpty(a_ret.value.metrics.period2)

\* ------------------------------------------------------------------------
\* C18
\* ------------------------------------------------------------------------
\* the arrays with the values of array in another order
Reordered(array) ==
    { NpArray(array.dtype, [k \in 1..Len(array.values) |-> array.values[f[k]]]) :
        f \in Permutations(1..Len(array.values)) }

\* the call returned a value in [0, 1), 0 within 0.0001 when all counts are
\* equal, the same for every order of the counts
GiniInRange(array, ret) ==
    /\ ret.ok
    /\ 0 <= ret.value.num
    /\ ret.value.num < ret.value.den
    /\ Cardinality(Range(array.values)) = 1 => ret.value.num <= ret.value.den \div 10000
    /\ \A other \in Reordered(array) : calculate_gini(other) = ret

\* C18: _calculate_gini returns a value in [0, 1) for every non-empty array
\* of non-negative counts, 0 (within 0.0001) when all counts are equal, and
\* the same value for every order of the counts.
C18_GiniRange ==
    (a_pc = "returned" /\ a_call.fn = "_calculate_gini") =>
        GiniInRange(a_call.array, a_ret)

\* ------------------------------------------------------------------------
\* C17
\* ------------------------------------------------------------------------
DistinctDates(df) == Cardinality({df[k].date : k \in 1..Len(df)})

\* number of calendar days from the first date of df to the last
CalendarDays(df) == DayNumber(MaxDate(df)) - DayNumber(MinDate(df)) + 1

AllEmpty(r) == r.trend = <<>> /\ r.seasonal = <<>> /\ r.residual = <<>>

\* each series has one entry per calendar day from the first to the last date
AllDaily(r, df) ==
    \A s \in {r.trend, r.seasonal, r.residual} :
        /\ Len(s) = CalendarDays(df)
        /\ \A k \in 1..Len(s) : DayNumber(s[k]) = DayNumber(MinDate(df)) + k - 1

Analysed == a_pc = "returned" /\ a_call.fn = "perform_statistical_analysis"

\* C17: perform_statistical_analysis returns three empty series when the
\* table has fewer than 14 distinct dates or when the decomposition raises,
\* and otherwise three non-empty series with one entry per calendar day
\* between the first and the last date; never some empty and some not.
C17_DecompositionSeries ==
    Analysed =>
        /\ (DistinctDates(a_df) < 14 \/ a_call.decompose = "raise")
              => AllEmpty(a_ret.value)
        /\ (DistinctDates(a_df) >= 14 /\ a_call.decompose = "ok")
              => (AllDaily(a_ret.value, a_df) /\ a_ret.value.trend # <<>>)
        /\ AllEmpty(a_ret.value)
              \/ (a_ret.value.trend # <<>> /\ a_ret.value.seasonal # <<>>
                    /\ a_ret.value.residual # <<>>)

C17_Witness ==
    /\ Analysed
    /\ a_call.decompose = "ok"
    /\ DistinctDates(a_df) = 14
    /\ CalendarDays(a_df) = 20
    /\ Len(a_ret.value.seasonal) = 20
    /\ a_ret.value.residual[20].day = 20

\* a table of 13 dates over 20 days has empty series
C17_WitnessBelow ==
    /\ Analysed
    /\ a_call.decompose = "ok"
    /\ DistinctDates(a_df) = 13
    /\ CalendarDays(a_df) = 19
    /\ AllEmpty(a_ret.value)

\* ------------------------------------------------------------------------
\* C19
\* ------------------------------------------------------------------------
Exported == a_pc = "returned" /\ a_call.fn = "export_data"

\* C19: export_data fails with the unsupported-format error for every
\* export_type other than 'csv', 'excel' and 'gz', and for 'gz' returns
\* bytes whose gzip decompression is the UTF-8 bytes returned for 'csv' on
\* the same table.
C19_ExportFormats ==
    Exported =>
        /\ a_call.export_type \notin {"csv", "excel", "gz"}
              => (~a_ret.ok /\ a_ret.error = "Unsupported export format")
        /\ a_call.export_type = "gz"
              => /\ a_ret.ok
                 /\ a_ret.value.gzip
                 /\ export_data(a_df, "csv").ok
                 /\ GzipDecompress(a_ret.value) = export_data(a_df, "csv").value

C19_Witness ==
    /\ Exported
    /\ a_call.export_type = "gz"
    /\ a_ret.ok
    /\ Len(a_df) = 2
    /\ a_df[2].url = <<"/", "c", "e'">>
    /\ Len(a_ret.value.lines) = 4
    /\ "xC3" \in Range(a_ret.value.lines[3].items[1].text)

\* a call with a format that is not supported
C19_WitnessUnsupported ==
    /\ Exported
    /\ a_call.export_type = "CSV"
    /\ ~a_ret.ok

\* ------------------------------------------------------------------------
\* C21
\* ------------------------------------------------------------------------
\* load_data raises for the file the loop is about to handle
NextFileFails ==
    /\ pc = "loop"
    /\ idx < Len(uploaded_files)
    /\ ~load_data(uploaded_files[idx + 1]).ok

\* the state of a run that ended in the handler of lines 434-435: the files
\* before the failing one were loaded, the failing one is the last one
\* load_data was called with, and one message names it
FailedRun ==
    /\ idx < Len(uploaded_files)
    /\ Len(loads) = idx + 1
    /\ \A k \in 1..(idx + 1) : loads[k] = load_data(uploaded_files[k])
    /\ \A k \in 1..idx : loads[k].ok
    /\ ~loads[idx + 1].ok
    /\ Len(error) = 1
    /\ error[1] = loads[idx + 1].error
    /\ error[1].kind # "none"
    /\ error[1].name = uploaded_files[idx + 1].name

\* a step of a run with respect to a failure of load_data
FailureStep ==
    /\ NextFileFails => pc' = "failed"
    /\ pc' = "failed" => NextFileFails /\ session_data' = session_data
    /\ pc' # "done" => session_data' = session_data
    /\ pc = "failed" => pc' = "loop" /\ uploads' = uploads + 1 /\ loads' = <<>>

\* C21: if load_data fails for a file of an uploaded batch, the run ends
\* there: no later file of the batch is given to load_data, the session
\* event table keeps the value it had before the batch (it changes only in
\* the step that completes a batch, and a failed run is followed by nothing
\* but a new upload), nothing is retried, and exactly one error message,
\* which names the failing file, is reported.
C21_FailedBatchLeavesSession ==
    /\ [](pc = "failed" => FailedRun)
    /\ [][FailureStep]_vars

\* the second file of the second upload fails after the first one was loaded,
\* and the session holds the table of the first upload
C21_Witness ==
    /\ pc = "failed"
    /\ uploads = 2
    /\ ~session_data.none
    /\ Len(uploaded_files) = 2
    /\ idx = 1
    /\ combined_df # <<>>
    /\ session_data.df # combined_df

\* the first file of an upload of two fails: the second one is not loaded
C21_WitnessLaterFile ==
    /\ pc = "failed"
    /\ Len(uploaded_files) = 2
    /\ idx = 0
    /\ Len(loads) = 1
    /\ load_data(uploaded_files[2]).ok

\* ------------------------------------------------------------------------
\* C22
\* ------------------------------------------------------------------------
\* t has one row per (date, url) pair of df, with the number of rows of df of
\* that pair, in ascending order of date
FrequencyOf(df, t) ==
    /\ \A j, k \in 1..Len(t) :
          (t[j].date = t[k].date /\ t[j].url = t[k].url) => j = k
    /\ { <<t[k].date, t[k].url>> : k \in 1..Len(t) }
          = { <<df[k].date, df[k].url>> : k \in 1..Len(df) }
    /\ \A k \in 1..Len(t) :
          t[k].crawl_count =
              Len(SelectSeq(df, LAMBDA row : row.date = t[k].date /\ row.url = t[k].url))
    /\ SumSeq(Column(t, "crawl_count")) = Len(df)
    /\ \A k \in 1..(Len(t) - 1) : DateLE(t[k].date, t[k + 1].date)

\* C22: calculate_crawl_frequency returns exactly one row per distinct
\* (date, url) pair of the table, with crawl_count the number of table rows
\* having that pair, so that the counts sum to the number of rows of the
\* table; the rows are in ascending order of date; an empty or missing table
\* gives an empty result.
C22_CrawlFrequency ==
    (a_pc = "returned" /\ a_call.fn = "calculate_crawl_frequency") =>
        /\ a_ret.ok
        /\ FrequencyOf(IF a_call.df.none THEN <<>> ELSE a_call.df.df, a_ret.value)
        /\ (a_call.df.none \/ a_call.df.df = <<>>) => a_ret.value = <<>>

\* a table with two rows of one pair and a row of another url of the same date
C22_Witness ==
    /\ a_pc = "returned"
    /\ a_call.fn = "calculate_crawl_frequency"
    /\ ~a_call.df.none
    /\ Len(a_call.df.df) = 3
    /\ Len(a_ret.value) = 2
    /\ a_ret.value[1].date = a_ret.value[2].date
    /\ \E k \in 1..2 : a_ret.value[k].crawl_count = 2

C22_WitnessMissing ==
    /\ a_pc = "returned"
    /\ a_call.fn = "calculate_crawl_frequency"
    /\ a_call.df.none
    /\ a_ret.value = <<>>

\* ------------------------------------------------------------------------
\* C23
\* ------------------------------------------------------------------------
\* the rows of df of a month
RowsOfMonth(df, month) == SelectSeq(df, LAMBDA row : row.month = month)

\* the days (year, month, day) of the rows
DaysOf(rows) ==
    { <<rows[k].date.year, rows[k].date.month, rows[k].date.day>> : k \in 1..Len(rows) }

\* C23: calculate_monthly_stats returns one row per distinct month of the
\* table, with total_crawls the number of table rows of that month and
\* unique_days the number of distinct dates of that month; so total_crawls
\* summed over the months is the number of rows of the table, and
\* unique_days never exceeds total_crawls.
C23_MonthlyStats ==
    (a_pc = "returned" /\ a_call.fn = "calculate_monthly_stats") =>
        /\ a_ret.ok
        /\ Len(a_ret.value) = Cardinality({a_df[k].month : k \in 1..Len(a_df)})
        /\ Range(Column(a_ret.value, "month")) = {a_df[k].month : k \in 1..Len(a_df)}
        /\ \A k \in 1..Len(a_ret.value) :
              /\ a_ret.value[k].total_crawls
                    = Len(RowsOfMonth(a_df, a_ret.value[k].month))
              /\ a_ret.value[k].unique_days
                    = Cardinality(DaysOf(RowsOfMonth(a_df, a_ret.value[k].month)))
              /\ a_ret.value[k].unique_days <= a_ret.value[k].total_crawls
        /\ SumSeq(Column(a_ret.value, "total_crawls")) = Len(a_df)

\* a table of two months, with two rows of one day in one of them
C23_Witness ==
    /\ a_pc = "returned"
    /\ a_call.fn = "calculate_monthly_stats"
    /\ Len(a_df) = 3
    /\ Len(a_ret.value) = 2
    /\ \E k \in 1..2 :
          a_ret.value[k].total_crawls = 2 /\ a_ret.value[k].unique_days = 1

\* ------------------------------------------------------------------------
\* C24
\* ------------------------------------------------------------------------
\* the rows of url whose day is one of the days from start_date to end_date
RowsInRange(url, start_date, end_date) ==
    SelectSeq(a_df, LAMBDA row :
        row.url = url /\ DayInRange(row, start_date, end_date))

\* the table has one row per url of the rows from start_date to end_date,
\* and every metric of a url is the metric of exactly those rows of the url
AggregatesRange(t, start_date, end_date) ==
    /\ \A j, k \in 1..Len(t) : t[j].url = t[k].url => j = k
    /\ Range(Column(t, "url"))
          = { a_df[k].url : k \in { j \in 1..Len(a_df) :
                                      DayInRange(a_df[j], start_date, end_date) } }
    /\ \A k \in 1..Len(t) :
          t[k] = UrlPattern(t[k].url, RowsInRange(t[k].url, start_date, end_date))

\* avg_daily_crawls = total_crawls / unique_days, with unique_days >= 1
AverageOfDays(r) ==
    /\ r.unique_days >= 1
    /\ r.avg_daily_crawls[2] # 0
    /\ r.avg_daily_crawls[1] * r.unique_days = r.total_crawls * r.avg_daily_crawls[2]

C24_WitnessUnknownSort ==
    /\ a_pc = "returned"
    /\ a_call.fn = "get_url_patterns"
    /\ a_call.sort_by \notin UrlPatternColumns
    /\ ~a_call.ascending
    /\ Len(a_ret.value) = 2
    /\ a_ret.value[1].total_crawls < a_ret.value[2].total_crawls

\* ------------------------------------------------------------------------
\* C25
\* ------------------------------------------------------------------------
\* the hour of day of the event of a row
HourOfDay(row) == TimeValue(row.time)[1]

\* number of events of the table at hour h of the day
EventsAtHour(df, h) == Cardinality({k \in 1..Len(df) : HourOfDay(df[k]) = h})

\* p lists the hours of day of most events of df: three of them, or all if
\* there are fewer, by descending count, hours of equal count ascending
PeakHoursOf(df, p) ==
    /\ Len(p) = IF Cardinality({HourOfDay(df[k]) : k \in 1..Len(df)}) < 3
                THEN Cardinality({HourOfDay(df[k]) : k \in 1..Len(df)})
                ELSE 3
    /\ \A k \in 1..Len(p) : EventsAtHour(df, p[k]) > 0
    /\ \A k \in 1..(Len(p) - 1) :
          \/ EventsAtHour(df, p[k]) > EventsAtHour(df, p[k + 1])
          \/ EventsAtHour(df, p[k]) = EventsAtHour(df, p[k + 1]) /\ p[k] < p[k + 1]
    /\ \A h \in 0..23 : \A k \in 1..Len(p) :
          h \notin Range(p) => EventsAtHour(df, h) <= EventsAtHour(df, p[k])

\* C25: peak_hours returned by perform_statistical_analysis is the list of
\* the 3 hours of day with the highest total event count (fewer only when
\* fewer than 3 distinct hours occur), in non-increasing order of count, hours
\* of equal count in ascending order.
C25_PeakHours ==
    (a_pc = "returned" /\ a_call.fn = "perform_statistical_analysis") =>
        PeakHoursOf(a_df, a_ret.value.peak_hours)

====
